---- MODULE Spec2Model ----
(***************************************************************************)
(* A model of two subsystems of cozo-core:                                 *)
(*                                                                         *)
(*   - the temporal interval / bucket / recurrence operators of            *)
(*     cozo-core/src/data/functions.rs, which are pure functions: each is  *)
(*     an operator here, and a harness draws its arguments in Init and     *)
(*     calls the operators one after the other;                            *)
(*   - the StackGraphQuery fixed rule of                                   *)
(*     cozo-core/src/fixed_rule/algos/stack_graph, a state machine over    *)
(*     the blob store, the loaded graph and the partial-path database.     *)
(***************************************************************************)
EXTENDS Integers, Sequences, FiniteSets, TLC

VARIABLES
    build,      \* "debug" | "release": whether integer overflow panics or wraps
    args,       \* the arguments the harness drew for the pure operators
    rets,       \* operator name -> what the call returned
    pc,         \* where StackGraphQuery::run stands
    st,         \* the State struct: blob store, loaded graph, path database
    loc,        \* the locals of Querier::definitions
    out,        \* the rows put into the output relation
    poison,     \* the Poison flag, set by another thread
    now         \* milliseconds since StackGraphQuery::run was called

fnVars == <<build, args, rets>>
drvVars == <<pc, st, loc, out, poison, now>>
vars == <<build, args, rets, pc, st, loc, out, poison, now>>

\* The State struct before any row is indexed, and the locals before the
\* first reference.
NoState ==
    [graph_blobs |-> <<>>, node_path_blobs |-> <<>>, root_paths_index |-> <<>>,
     root_path_blobs |-> <<>>, graph |-> {}, partials |-> <<>>,
     root_path_symbol_stacks_files |-> <<>>,
     missing_files |-> [some |-> FALSE, files |-> <<>>]]
NoLocals ==
    [source_poss |-> <<>>, ref_idx |-> 1, nodes |-> <<>>, resolutions |-> <<>>,
     \* the stitcher: the paths whose extensions are still to be loaded and
     \* the phase that follows them
     pending |-> <<>>, back |-> "",
     \* load_paths_for_node: the node and its blobs still to be loaded
     blob_key |-> <<>>, blobs |-> <<>>,
     \* load_paths_for_root: the patterns and the indices still to be visited
     patterns |-> <<>>, idxs |-> <<>>,
     \* the shadowing loop: the index of `path` in all_paths
     path_idx |-> 1]

\* The fixed rule is not running while the pure operators are exercised.
DriverIdle ==
    /\ pc = "idle" /\ st = NoState /\ loc = NoLocals
    /\ out = <<>> /\ poison = FALSE /\ now = 0

(***************************************************************************)
(* Results.  A Rust Result<DataValue> is Ok(v) or Err(message); an         *)
(* arithmetic overflow in a build with overflow checks is a panic.         *)
(***************************************************************************)
Ok(v) == [tag |-> "ok", val |-> v]
Err(m) == [tag |-> "err", val |-> m]
Panic == [tag |-> "panic", val |-> "attempt to do arithmetic with overflow"]
Null == "null"

IsOk(r) == r.tag = "ok"
IsErr(r) == r.tag = "err"

BuildModes == {"debug", "release"}

(***************************************************************************)
(* i64 arithmetic.  DataValue::get_int yields an i64; +, - and * on it     *)
(* panic on overflow in a build with overflow checks and wrap (two's       *)
(* complement) in one without.  TLC's integers are 32 bits wide, so the    *)
(* width is scaled down to IntBits bits.                                   *)
(***************************************************************************)
IntBits == 5
IntMin == -(2 ^ (IntBits - 1))
IntMax == (2 ^ (IntBits - 1)) - 1
Overflows(x) == x < IntMin \/ x > IntMax
Wrap(x) == ((x - IntMin) % (2 ^ IntBits)) + IntMin

\* The result of an arithmetic expression whose steps have the exact
\* (unbounded) values `steps`, the last being the value of the expression.
Arith(steps, b) ==
    IF b = "debug" /\ \E i \in 1..Len(steps) : Overflows(steps[i])
    THEN Panic
    ELSE Ok(Wrap(steps[Len(steps)]))

\* i64 `/`: truncation toward zero.  i64::div_euclid for a positive divisor:
\* the floor.
TruncDiv(x, y) == IF x >= 0 THEN x \div y ELSE -((-x) \div y)
DivEuclid(x, y) == x \div y

Min(x, y) == IF x <= y THEN x ELSE y
Max(x, y) == IF x >= y THEN x ELSE y

(***************************************************************************)
(* Intervals.  An interval argument is a two-element list [s, e]; the      *)
(* model writes it <<s, e>>.  A list of intervals is a sequence of them.   *)
(***************************************************************************)
Start(iv) == iv[1]
End(iv) == iv[2]

op_interval(s, e) ==
    IF s >= e THEN Err("'interval' expects start < end") ELSE Ok(<<s, e>>)

op_interval_len(iv, b) == Arith(<<End(iv) - Start(iv)>>, b)

op_interval_intersects(a, b) == Ok(Start(a) < End(b) /\ Start(b) < End(a))

op_interval_overlap(a, b) ==
    LET s == Max(Start(a), Start(b))
        e == Min(End(a), End(b))
    IN  IF s < e THEN Ok(<<s, e>>) ELSE Ok(Null)

\* Mutant: adjacency counts as overlap, as in interval_merge_adjacent.
op_interval_union_adjacent(a, b) ==
    IF End(a) >= Start(b) /\ Start(a) <= End(b)
    THEN Ok(<< <<Min(Start(a), Start(b)), Max(End(a), End(b))>> >>)
    ELSE IF Start(a) < Start(b) THEN Ok(<<a, b>>) ELSE Ok(<<b, a>>)

op_interval_union(a, b) ==
    IF End(a) > Start(b) /\ Start(a) < End(b)
    THEN Ok(<< <<Min(Start(a), Start(b)), Max(End(a), End(b))>> >>)
    ELSE IF Start(a) < Start(b) THEN Ok(<<a, b>>) ELSE Ok(<<b, a>>)

op_interval_minus(a, b) ==
    IF End(a) <= Start(b) \/ End(b) <= Start(a) THEN Ok(<<a>>)
    ELSE IF Start(b) <= Start(a) /\ End(b) >= End(a) THEN Ok(<<>>)
    ELSE IF Start(b) <= Start(a) /\ End(b) < End(a)
         THEN Ok(<< <<End(b), End(a)>> >>)
    ELSE IF Start(b) > Start(a) /\ End(b) >= End(a)
         THEN Ok(<< <<Start(a), Start(b)>> >>)
    ELSE Ok(<< <<Start(a), Start(b)>>, <<End(b), End(a)>> >>)

op_interval_adjacent(a, b) == Ok(End(a) = Start(b) \/ End(b) = Start(a))

op_interval_shift(iv, d, b) ==
    IF b = "debug" /\ (Overflows(Start(iv) + d) \/ Overflows(End(iv) + d))
    THEN Panic
    ELSE Ok(<<Wrap(Start(iv) + d), Wrap(End(iv) + d)>>)

op_interval_contains(iv, t) == Ok(Start(iv) <= t /\ t < End(iv))

op_interval_contains_interval(a, b) ==
    Ok(Start(a) <= Start(b) /\ End(b) <= End(a))

(***************************************************************************)
(* Allen's relations.  The first seven compare the bounds; the other six   *)
(* call one of them with the arguments swapped.                            *)
(***************************************************************************)
op_allen_before(a, b) == Ok(End(a) < Start(b))
op_allen_meets(a, b) == Ok(End(a) = Start(b))
\* Mutant: the first comparison is not strict.
op_allen_overlaps_nonstrict(a, b) ==
    Ok(Start(a) <= Start(b) /\ Start(b) < End(a) /\ End(a) < End(b))
op_allen_overlaps(a, b) ==
    Ok(Start(a) < Start(b) /\ Start(b) < End(a) /\ End(a) < End(b))
op_allen_starts(a, b) == Ok(Start(a) = Start(b) /\ End(a) < End(b))
op_allen_during(a, b) == Ok(Start(b) < Start(a) /\ End(a) < End(b))
op_allen_finishes(a, b) == Ok(Start(a) > Start(b) /\ End(a) = End(b))
op_allen_equals(a, b) == Ok(Start(a) = Start(b) /\ End(a) = End(b))
op_allen_after(a, b) == op_allen_before(b, a)
op_allen_met_by(a, b) == op_allen_meets(b, a)
op_allen_overlapped_by(a, b) == op_allen_overlaps(b, a)
op_allen_started_by(a, b) == op_allen_starts(b, a)
op_allen_contains(a, b) == op_allen_during(b, a)
op_allen_finished_by(a, b) == op_allen_finishes(b, a)

AllenNames ==
    {"allen_before", "allen_meets", "allen_overlaps", "allen_starts",
     "allen_during", "allen_finishes", "allen_equals", "allen_after",
     "allen_met_by", "allen_overlapped_by", "allen_started_by",
     "allen_contains", "allen_finished_by"}

(***************************************************************************)
(* The harness of the interval operators: Init draws two interval          *)
(* arguments (degenerate and reversed ones included) and an integer, and   *)
(* the operators are called on them in the order of IntervalOrder.         *)
(***************************************************************************)
MaxCoord == 3
Coords == 0..MaxCoord
AllIvs == Coords \X Coords
WellFormed(iv) == Start(iv) < End(iv)

IntervalOrder ==
    <<"interval", "interval_len", "interval_intersects", "interval_overlap",
      "interval_union", "interval_minus", "interval_adjacent",
      "interval_shift", "interval_contains", "interval_contains_interval",
      "allen_before", "allen_meets", "allen_overlaps", "allen_starts",
      "allen_during", "allen_finishes", "allen_equals", "allen_after",
      "allen_met_by", "allen_overlapped_by", "allen_started_by",
      "allen_contains", "allen_finished_by">>

Called(name) == name \in DOMAIN rets

\* It is `name`'s turn in `order`: exactly the operators before it were called.
Turn(order, name) ==
    \E i \in 1..Len(order) :
        /\ order[i] = name
        /\ DOMAIN rets = {order[j] : j \in 1..(i - 1)}

Return(order, name, r) ==
    /\ Turn(order, name)
    /\ rets' = rets @@ (name :> r)
    /\ UNCHANGED <<build, args>>
    /\ UNCHANGED drvVars

InitInterval ==
    /\ build \in BuildModes
    /\ args \in [kind : {"interval"}, a : AllIvs, b : AllIvs, t : Coords]
    /\ rets = <<>>
    /\ DriverIdle

IvCall(name, r) == args.kind = "interval" /\ Return(IntervalOrder, name, r)

CallInterval == IvCall("interval", op_interval(Start(args.a), End(args.a)))
CallIntervalLen == IvCall("interval_len", op_interval_len(args.a, build))
CallIntervalIntersects ==
    IvCall("interval_intersects", op_interval_intersects(args.a, args.b))
CallIntervalOverlap ==
    IvCall("interval_overlap", op_interval_overlap(args.a, args.b))
CallIntervalUnion == IvCall("interval_union", op_interval_union(args.a, args.b))
CallIntervalMinus == IvCall("interval_minus", op_interval_minus(args.a, args.b))
CallIntervalAdjacent ==
    IvCall("interval_adjacent", op_interval_adjacent(args.a, args.b))
CallIntervalShift ==
    IvCall("interval_shift", op_interval_shift(args.a, args.t, build))
CallIntervalContains ==
    IvCall("interval_contains", op_interval_contains(args.a, args.t))
CallIntervalContainsInterval ==
    IvCall("interval_contains_interval",
           op_interval_contains_interval(args.a, args.b))
CallAllenBefore == IvCall("allen_before", op_allen_before(args.a, args.b))
CallAllenMeets == IvCall("allen_meets", op_allen_meets(args.a, args.b))
CallAllenOverlaps == IvCall("allen_overlaps", op_allen_overlaps(args.a, args.b))
CallAllenStarts == IvCall("allen_starts", op_allen_starts(args.a, args.b))
CallAllenDuring == IvCall("allen_during", op_allen_during(args.a, args.b))
CallAllenFinishes == IvCall("allen_finishes", op_allen_finishes(args.a, args.b))
CallAllenEquals == IvCall("allen_equals", op_allen_equals(args.a, args.b))
CallAllenAfter == IvCall("allen_after", op_allen_after(args.a, args.b))
CallAllenMetBy == IvCall("allen_met_by", op_allen_met_by(args.a, args.b))
CallAllenOverlappedBy ==
    IvCall("allen_overlapped_by", op_allen_overlapped_by(args.a, args.b))
CallAllenStartedBy ==
    IvCall("allen_started_by", op_allen_started_by(args.a, args.b))
CallAllenContains == IvCall("allen_contains", op_allen_contains(args.a, args.b))
CallAllenFinishedBy ==
    IvCall("allen_finished_by", op_allen_finished_by(args.a, args.b))

NextInterval ==
    \/ CallInterval
    \/ CallIntervalLen
    \/ CallIntervalIntersects
    \/ CallIntervalOverlap
    \/ CallIntervalUnion
    \/ CallIntervalMinus
    \/ CallIntervalAdjacent
    \/ CallIntervalShift
    \/ CallIntervalContains
    \/ CallIntervalContainsInterval
    \/ CallAllenBefore
    \/ CallAllenMeets
    \/ CallAllenOverlaps
    \/ CallAllenStarts
    \/ CallAllenDuring
    \/ CallAllenFinishes
    \/ CallAllenEquals
    \/ CallAllenAfter
    \/ CallAllenMetBy
    \/ CallAllenOverlappedBy
    \/ CallAllenStartedBy
    \/ CallAllenContains
    \/ CallAllenFinishedBy

SpecInterval == InitInterval /\ [][NextInterval]_vars

AllenTrue == {n \in AllenNames : Called(n) /\ rets[n] = Ok(TRUE)}
AllenAllCalled == args.kind = "interval" /\ AllenNames \subseteq DOMAIN rets

(***************************************************************************)
(* C3.  For every pair of well-formed intervals a and b, exactly one of    *)
(* the thirteen Allen relation operators returns true for (a, b).          *)
(***************************************************************************)
C3_ExactlyOneAllen ==
    (AllenAllCalled /\ WellFormed(args.a) /\ WellFormed(args.b))
        => Cardinality(AllenTrue) = 1

\* The thirteen were called on a pair related by an inverse relation, the
\* case the swapped-argument operators decide.
C3_Witness ==
    /\ AllenAllCalled /\ WellFormed(args.a) /\ WellFormed(args.b)
    /\ rets["allen_overlapped_by"] = Ok(TRUE)

UnionCalled == args.kind = "interval" /\ Called("interval_union")
Touch(a, b) == End(a) = Start(b) \/ End(b) = Start(a)
StrictOverlap(a, b) == End(a) > Start(b) /\ Start(a) < End(b)
Hull(a, b) == <<Min(Start(a), Start(b)), Max(End(a), End(b))>>
BothSortedByStart(r, a, b) ==
    /\ IsOk(r) /\ Len(r.val) = 2
    /\ {r.val[1], r.val[2]} = {a, b}
    /\ Start(r.val[1]) <= Start(r.val[2])

(***************************************************************************)
(* C4 as stated.  interval_union(a, b) returns the single interval         *)
(* [min(as,bs), max(ae,be)] whenever a and b overlap or merely touch, and  *)
(* both intervals sorted by start only when there is a gap between them.   *)
(***************************************************************************)
C4_UnionMergesTouching ==
    (UnionCalled /\ WellFormed(args.a) /\ WellFormed(args.b)) =>
        IF StrictOverlap(args.a, args.b) \/ Touch(args.a, args.b)
        THEN rets["interval_union"] = Ok(<<Hull(args.a, args.b)>>)
        ELSE BothSortedByStart(rets["interval_union"], args.a, args.b)

(***************************************************************************)
(* C4 amended.  interval_union(a, b) returns the single interval           *)
(* [min(as,bs), max(ae,be)] exactly when a and b overlap (ae > bs and      *)
(* as < be); when they merely touch or are separated by a gap it returns   *)
(* both intervals, sorted by start.                                        *)
(***************************************************************************)
C4_UnionMergesOverlapOnly ==
    (UnionCalled /\ WellFormed(args.a) /\ WellFormed(args.b)) =>
        IF StrictOverlap(args.a, args.b)
        THEN rets["interval_union"] = Ok(<<Hull(args.a, args.b)>>)
        ELSE BothSortedByStart(rets["interval_union"], args.a, args.b)

\* The union of two touching intervals was taken, and both came back.
C4_Witness ==
    /\ UnionCalled /\ WellFormed(args.a) /\ WellFormed(args.b)
    /\ End(args.a) = Start(args.b)
    /\ rets["interval_union"] = Ok(<<args.a, args.b>>)

\* The interval arguments of each operator of the harness.
IntervalArgs(name) ==
    IF name \in {"interval", "interval_len", "interval_shift", "interval_contains"}
    THEN {args.a}
    ELSE {args.a, args.b}

(***************************************************************************)
(* C5 as stated.  Every interval operator returns an error when any        *)
(* interval argument [s, e] has s >= e.                                    *)
(***************************************************************************)
C5_OperatorsRejectIllFormed ==
    args.kind = "interval" =>
        \A name \in DOMAIN rets :
            (\E iv \in IntervalArgs(name) : ~WellFormed(iv)) => IsErr(rets[name])

(***************************************************************************)
(* Operators on lists of intervals.                                        *)
(***************************************************************************)
\* Vec::sort_by_key(|&(s, _)| s): a stable sort by start.
RECURSIVE InsertByStart(_, _)
InsertByStart(sorted, iv) ==
    IF sorted = <<>> THEN <<iv>>
    ELSE IF Start(Head(sorted)) <= Start(iv)
         THEN <<Head(sorted)>> \o InsertByStart(Tail(sorted), iv)
         ELSE <<iv>> \o sorted

RECURSIVE SortByStart(_)
SortByStart(xs) ==
    IF xs = <<>> THEN <<>>
    ELSE InsertByStart(SortByStart(SubSeq(xs, 1, Len(xs) - 1)), xs[Len(xs)])

\* Mutant: only overlapping intervals are merged, touching ones are not.
RECURSIVE MergeSortedOverlapOnly(_, _, _)
MergeSortedOverlapOnly(current, rest, result) ==
    IF rest = <<>> THEN Append(result, current)
    ELSE IF End(current) > Start(Head(rest))
         THEN MergeSortedOverlapOnly(
                  <<Start(current), Max(End(current), End(Head(rest)))>>,
                  Tail(rest), result)
         ELSE MergeSortedOverlapOnly(Head(rest), Tail(rest), Append(result, current))

\* The merge loop: `current` absorbs the next interval while current.1 >= s.
RECURSIVE MergeSorted(_, _, _)
MergeSorted(current, rest, result) ==
    IF rest = <<>> THEN Append(result, current)
    ELSE IF End(current) >= Start(Head(rest))
         THEN MergeSorted(<<Start(current), Max(End(current), End(Head(rest)))>>,
                          Tail(rest), result)
         ELSE MergeSorted(Head(rest), Tail(rest), Append(result, current))

op_interval_merge_adjacent(xs) ==
    IF xs = <<>> THEN Ok(<<>>)
    ELSE LET ivs == SortByStart(xs)
         IN  Ok(MergeSorted(Head(ivs), Tail(ivs), <<>>))

op_normalize_intervals(xs) ==
    IF xs = <<>> THEN Ok(<<>>)
    ELSE LET kept == SelectSeq(xs, WellFormed)
         IN  IF kept = <<>> THEN Ok(<<>>)
             ELSE LET ivs == SortByStart(kept)
                  IN  Ok(MergeSorted(Head(ivs), Tail(ivs), <<>>))

\* Mutant: the cut from the right keeps [iv_s, sub_e) instead of [iv_s, sub_s).
SubtractOneWrongCut(iv, sub) ==
    IF End(sub) <= Start(iv) \/ Start(sub) >= End(iv) THEN <<iv>>
    ELSE IF Start(sub) <= Start(iv) /\ End(sub) >= End(iv) THEN <<>>
    ELSE IF Start(sub) <= Start(iv) /\ End(sub) < End(iv)
         THEN << <<End(sub), End(iv)>> >>
    ELSE IF Start(sub) > Start(iv) /\ End(sub) >= End(iv)
         THEN << <<Start(iv), End(sub)>> >>
    ELSE << <<Start(iv), Start(sub)>>, <<End(sub), End(iv)>> >>

\* One interval of the working list minus one subtrahend: what the inner
\* loop of op_intervals_minus pushes to new_result.
SubtractOne(iv, sub) ==
    IF End(sub) <= Start(iv) \/ Start(sub) >= End(iv) THEN <<iv>>
    ELSE IF Start(sub) <= Start(iv) /\ End(sub) >= End(iv) THEN <<>>
    ELSE IF Start(sub) <= Start(iv) /\ End(sub) < End(iv)
         THEN << <<End(sub), End(iv)>> >>
    ELSE IF Start(sub) > Start(iv) /\ End(sub) >= End(iv)
         THEN << <<Start(iv), Start(sub)>> >>
    ELSE << <<Start(iv), Start(sub)>>, <<End(sub), End(iv)>> >>

RECURSIVE SubtractFromAll(_, _)
SubtractFromAll(ivs, sub) ==
    IF ivs = <<>> THEN <<>>
    ELSE SubtractOne(Head(ivs), sub) \o SubtractFromAll(Tail(ivs), sub)

RECURSIVE ApplySubs(_, _)
ApplySubs(ivs, subs) ==
    IF subs = <<>> THEN ivs
    ELSE ApplySubs(SubtractFromAll(ivs, Head(subs)), Tail(subs))

op_intervals_minus(mains, subs) ==
    Ok(ApplySubs(SelectSeq(mains, WellFormed), SelectSeq(subs, WellFormed)))

(***************************************************************************)
(* The harness of the list operators: Init draws two lists of intervals    *)
(* of MaxIvs intervals in all, in any order, with overlapping, nested,     *)
(* touching, empty ([0,0]) and reversed ([MaxCoord,0]) intervals.          *)
(***************************************************************************)
MaxIvs == 3
ListIvs == {iv \in AllIvs : WellFormed(iv)} \cup {<<0, 0>>, <<MaxCoord, 0>>}
SeqsOfLen(S, n) == [1..n -> S]
ListPairs ==
    UNION {SeqsOfLen(ListIvs, m) \X SeqsOfLen(ListIvs, n) :
               <<m, n>> \in {mn \in (0..MaxIvs) \X (0..MaxIvs) : mn[1] + mn[2] <= MaxIvs}}

ListOrder ==
    <<"normalize_intervals", "normalize_again", "interval_merge_adjacent",
      "intervals_minus">>

InitLists ==
    /\ build = "release"
    /\ \E p \in ListPairs : args = [kind |-> "lists", mains |-> p[1], subs |-> p[2]]
    /\ rets = <<>>
    /\ DriverIdle

ListCall(name, r) == args.kind = "lists" /\ Return(ListOrder, name, r)

CallNormalizeIntervals ==
    ListCall("normalize_intervals", op_normalize_intervals(args.mains))
\* normalize_intervals called on the list the first call returned.
CallNormalizeAgain ==
    /\ Called("normalize_intervals")
    /\ ListCall("normalize_again",
                op_normalize_intervals(rets["normalize_intervals"].val))
CallIntervalMergeAdjacent ==
    ListCall("interval_merge_adjacent", op_interval_merge_adjacent(args.mains))
CallIntervalsMinus ==
    ListCall("intervals_minus", op_intervals_minus(args.mains, args.subs))

NextLists ==
    \/ CallNormalizeIntervals
    \/ CallNormalizeAgain
    \/ CallIntervalMergeAdjacent
    \/ CallIntervalsMinus

SpecLists == InitLists /\ [][NextLists]_vars

\* The integer points a list of intervals covers.
Points(ivs) ==
    {p \in 0..MaxCoord : \E i \in 1..Len(ivs) : Start(ivs[i]) <= p /\ p < End(ivs[i])}

(***************************************************************************)
(* C6.  The set of integer points covered by intervals_minus(mains, subs)  *)
(* equals the set of points covered by some interval of mains and by no    *)
(* interval of subs, whatever the order, overlap or nesting of the         *)
(* intervals in either list.                                               *)
(***************************************************************************)
C6_MinusIsSetDifference ==
    (args.kind = "lists" /\ Called("intervals_minus")) =>
        /\ IsOk(rets["intervals_minus"])
        /\ Points(rets["intervals_minus"].val) = Points(args.mains) \ Points(args.subs)

\* Two overlapping mains, and a subtrahend that cuts a main in the middle.
C6_Witness ==
    /\ args.kind = "lists" /\ Called("intervals_minus")
    /\ Len(args.mains) = 2 /\ Len(args.subs) = 1
    /\ StrictOverlap(args.mains[1], args.mains[2])
    /\ Start(args.mains[2]) < Start(args.subs[1])
    /\ End(args.subs[1]) < End(args.mains[2])
    /\ Len(rets["intervals_minus"].val) = 3

SortedWithGaps(ivs) ==
    /\ \A i \in 1..Len(ivs) : Start(ivs[i]) < End(ivs[i])
    /\ \A i \in 1..(Len(ivs) - 1) : End(ivs[i]) < Start(ivs[i + 1])

(***************************************************************************)
(* C7.  normalize_intervals(normalize_intervals(xs)) equals                *)
(* normalize_intervals(xs), and normalize_intervals(xs) is sorted by start *)
(* with every interval having start < end and every consecutive pair       *)
(* separated by a gap (previous end < next start).                         *)
(***************************************************************************)
C7_NormalizeIdempotent ==
    args.kind = "lists" =>
        /\ Called("normalize_intervals") =>
               /\ IsOk(rets["normalize_intervals"])
               /\ SortedWithGaps(rets["normalize_intervals"].val)
        /\ Called("normalize_again") =>
               rets["normalize_again"] = rets["normalize_intervals"]

\* An unsorted list with a degenerate entry and two touching intervals was
\* normalized twice.
C7_Witness ==
    /\ args.kind = "lists" /\ Called("normalize_again")
    /\ Len(args.mains) = 3
    /\ ~WellFormed(args.mains[1])
    /\ Start(args.mains[2]) = End(args.mains[3])
    /\ Len(rets["normalize_intervals"].val) = 1


(***************************************************************************)
(* Bucketing operators.  Every `+`, `-` and `*` of the source is an i64    *)
(* operation: its exact result is listed as a step of Arith, and the next  *)
(* step continues from the wrapped value.                                  *)
(***************************************************************************)
PeriodError == Err("Period must be positive")

op_bucket_of(t, period, epoch0, b) ==
    IF period <= 0 THEN PeriodError
    ELSE LET d == t - epoch0
         IN  Arith(<<d, DivEuclid(Wrap(d), period)>>, b)

op_bucket_start(k, period, epoch0, b) ==
    IF period <= 0 THEN PeriodError
    ELSE LET m == k * period
         IN  Arith(<<m, epoch0 + Wrap(m)>>, b)

op_ceil_to_bucket(t, period, epoch0, b) ==
    IF period <= 0 THEN PeriodError
    ELSE LET o == t - epoch0
             ow == Wrap(o)
             s1 == ow + period
             s2 == Wrap(s1) - 1
             bucket == IF ow >= 0 THEN TruncDiv(Wrap(s2), period)
                                  ELSE TruncDiv(ow, period)
             m == bucket * period
             c == epoch0 + Wrap(m)
         IN  Arith(IF ow >= 0 THEN <<o, s1, s2, m, c>> ELSE <<o, m, c>>, b)

op_floor_to_bucket(t, period, epoch0, b) ==
    IF period <= 0 THEN PeriodError
    ELSE LET o == t - epoch0
             ow == Wrap(o)
             s1 == ow - period
             s2 == Wrap(s1) + 1
             bucket == IF ow >= 0 THEN TruncDiv(ow, period)
                                  ELSE TruncDiv(Wrap(s2), period)
             m == bucket * period
             f == epoch0 + Wrap(m)
         IN  Arith(IF ow >= 0 THEN <<o, m, f>> ELSE <<o, s1, s2, m, f>>, b)

op_duration_in_buckets(d, period, b) ==
    IF period <= 0 THEN PeriodError
    ELSE IF d < 0 THEN Err("Duration must be non-negative")
    ELSE LET s1 == d + period
             s2 == Wrap(s1) - 1
         IN  Arith(<<s1, s2, TruncDiv(Wrap(s2), period)>>, b)

(***************************************************************************)
(* The harness of the bucketing operators.  The timestamp (also used as    *)
(* the bucket number and as the duration) ranges over the whole integer    *)
(* width; periods and epochs are small values, a non-positive period and   *)
(* the extremes of the width.                                              *)
(***************************************************************************)
MaxPeriod == 3
MaxEpoch == 2
Ints == IntMin..IntMax
Periods == (-1..MaxPeriod) \cup {IntMax}
Epochs == ((-MaxEpoch)..MaxEpoch) \cup {IntMin, IntMax}

BucketOrder ==
    <<"bucket_of", "bucket_start", "bucket_of_start", "floor_to_bucket",
      "ceil_to_bucket", "duration_in_buckets", "interval_len", "interval_shift">>

InitBucket ==
    /\ build \in BuildModes
    /\ args \in [kind : {"bucket"}, t : Ints, period : Periods, epoch0 : Epochs]
    /\ rets = <<>>
    /\ DriverIdle

BucketCall(name, r) == args.kind = "bucket" /\ Return(BucketOrder, name, r)

CallBucketOf ==
    BucketCall("bucket_of", op_bucket_of(args.t, args.period, args.epoch0, build))
CallBucketStart ==
    BucketCall("bucket_start",
               op_bucket_start(args.t, args.period, args.epoch0, build))
\* bucket_of(bucket_start(k, period, epoch0), period, epoch0): the outer call
\* runs only if the inner one returned a value.
CallBucketOfStart ==
    /\ Called("bucket_start")
    /\ BucketCall("bucket_of_start",
                  IF IsOk(rets["bucket_start"])
                  THEN op_bucket_of(rets["bucket_start"].val, args.period,
                                    args.epoch0, build)
                  ELSE rets["bucket_start"])
CallFloorToBucket ==
    BucketCall("floor_to_bucket",
               op_floor_to_bucket(args.t, args.period, args.epoch0, build))
CallCeilToBucket ==
    BucketCall("ceil_to_bucket",
               op_ceil_to_bucket(args.t, args.period, args.epoch0, build))
CallDurationInBuckets ==
    BucketCall("duration_in_buckets",
               op_duration_in_buckets(args.t, args.period, build))

\* interval_len and interval_shift on the interval [epoch0, t], whose bounds
\* reach the extremes of the integer width.
CallWideIntervalLen ==
    /\ args.epoch0 < args.t
    /\ BucketCall("interval_len", op_interval_len(<<args.epoch0, args.t>>, build))
CallWideIntervalShift ==
    /\ args.epoch0 < args.t
    /\ BucketCall("interval_shift",
                  op_interval_shift(<<args.epoch0, args.t>>, args.period, build))

NextBucket ==
    \/ CallBucketOf
    \/ CallBucketStart
    \/ CallBucketOfStart
    \/ CallFloorToBucket
    \/ CallCeilToBucket
    \/ CallDurationInBuckets
    \/ CallWideIntervalLen
    \/ CallWideIntervalShift

SpecBucket == InitBucket /\ [][NextBucket]_vars

FloorCeilCalled ==
    /\ args.kind = "bucket" /\ args.period > 0
    /\ Called("floor_to_bucket") /\ Called("ceil_to_bucket")

(***************************************************************************)
(* C8 (as stated).  For every timestamp t, every period > 0 and every      *)
(* epoch0, floor_to_bucket and ceil_to_bucket return values with           *)
(* floor <= t <= ceil; both equal t when t - epoch0 is a multiple of       *)
(* period, and otherwise ceil - floor = period.                            *)
(***************************************************************************)
C8_FloorCeilBracket ==
    FloorCeilCalled =>
        /\ IsOk(rets["floor_to_bucket"]) /\ IsOk(rets["ceil_to_bucket"])
        /\ rets["floor_to_bucket"].val <= args.t
        /\ args.t <= rets["ceil_to_bucket"].val
        /\ IF (args.t - args.epoch0) % args.period = 0
           THEN /\ rets["floor_to_bucket"].val = args.t
                /\ rets["ceil_to_bucket"].val = args.t
           ELSE rets["ceil_to_bucket"].val - rets["floor_to_bucket"].val
                    = args.period

(***************************************************************************)
(* C9 (as stated).  For all k and epoch0 and every period > 0,             *)
(* bucket_of(bucket_start(k, period, epoch0), period, epoch0) returns k.   *)
(***************************************************************************)
C9_BucketRoundTrip ==
    (args.kind = "bucket" /\ args.period > 0 /\ Called("bucket_of_start")) =>
        rets["bucket_of_start"] = Ok(args.t)

\* The value each operator of the harness stands for, in unbounded integers.
CeilDiv(x, y) == -((-x) \div y)
Exact(name) ==
    CASE name = "bucket_of" -> (args.t - args.epoch0) \div args.period
      [] name = "bucket_start" -> args.epoch0 + args.t * args.period
      [] name = "floor_to_bucket" ->
             args.epoch0 + ((args.t - args.epoch0) \div args.period) * args.period
      [] name = "ceil_to_bucket" ->
             args.epoch0 + CeilDiv(args.t - args.epoch0, args.period) * args.period
      [] name = "duration_in_buckets" -> CeilDiv(args.t, args.period)
      [] name = "interval_len" -> args.t - args.epoch0
      [] name = "interval_shift" ->
             <<args.epoch0 + args.period, args.t + args.period>>

(***************************************************************************)
(* C17 (as stated).  For every combination of integer arguments, the       *)
(* extremes of the range included, interval_len, interval_shift,           *)
(* bucket_of, bucket_start, floor_to_bucket, ceil_to_bucket and            *)
(* duration_in_buckets return a value or an error value: no call aborts on *)
(* an intermediate result that leaves the range, and no returned value is  *)
(* a wrapped one.                                                          *)
(***************************************************************************)
C17_NoOverflow ==
    args.kind = "bucket" =>
        \A name \in DOMAIN rets \ {"bucket_of_start"} :
            /\ rets[name].tag \in {"ok", "err"}
            /\ IsOk(rets[name]) => rets[name].val = Exact(name)


(***************************************************************************)
(* Calendar and time zones.  A NaiveDate is the number of days since       *)
(* 1970-01-01, an instant or a local date-time is a number of seconds, and *)
(* a millisecond timestamp t is the record [s |-> t / 1000,                *)
(* ms |-> t % 1000].  An Option is the empty set or a one-element set.     *)
(***************************************************************************)
EpochYear == 1970
MaxYears == 3
Years == EpochYear..(EpochYear + MaxYears - 1)
SecsPerMin == 60
MinsPerHour == 60
MinsPerDay == 1440
MsPerSec == 1000
SecsPerHour == MinsPerHour * SecsPerMin
SecsPerDay == MinsPerDay * SecsPerMin

is_leap_year(year) == (year % 4 = 0 /\ year % 100 # 0) \/ (year % 400 = 0)

days_in_month_helper(year, month) ==
    IF month \in {1, 3, 5, 7, 8, 10, 12} THEN 31
    ELSE IF month \in {4, 6, 9, 11} THEN 30
    ELSE IF month = 2 THEN (IF is_leap_year(year) THEN 29 ELSE 28)
    ELSE 30

RECURSIVE DaysBeforeYear(_)
DaysBeforeYear(y) ==
    IF y <= EpochYear THEN 0
    ELSE DaysBeforeYear(y - 1) + (IF is_leap_year(y - 1) THEN 366 ELSE 365)

RECURSIVE DaysBeforeMonth(_, _)
DaysBeforeMonth(y, m) ==
    IF m <= 1 THEN 0
    ELSE DaysBeforeMonth(y, m - 1) + days_in_month_helper(y, m - 1)

\* NaiveDate::from_ymd_opt: None for a month or a day that does not exist.
from_ymd_opt(y, m, d) ==
    IF m \in 1..12 /\ d \in 1..days_in_month_helper(y, m)
    THEN {DaysBeforeYear(y) + DaysBeforeMonth(y, m) + d - 1}
    ELSE {}

Ymd(y, m, d) == CHOOSE n \in from_ymd_opt(y, m, d) : TRUE

LastDay == DaysBeforeYear(EpochYear + MaxYears) - 1
Days == 0..LastDay

\* Datelike::year and Datelike::month of a NaiveDate.
YearTable ==
    [n \in Days |->
        CHOOSE y \in Years : DaysBeforeYear(y) <= n /\ n < DaysBeforeYear(y + 1)]
MonthTable ==
    [n \in Days |->
        CHOOSE m \in 1..12 :
            /\ Ymd(YearTable[n], m, 1) <= n
            /\ n < Ymd(YearTable[n], m, 1) + days_in_month_helper(YearTable[n], m)]
date_year(date) == YearTable[date]
date_month(date) == MonthTable[date]

\* Datelike::weekday, numbered as the expanders number it (1 = Monday ..
\* 7 = Sunday); 1970-01-01 was a Thursday.
weekday(date) == ((date + 3) % 7) + 1

\* NaiveDate::and_hms_opt(hour, min, 0).
and_hms_opt(date, hour, min) ==
    IF hour \in 0..23 /\ min \in 0..(MinsPerHour - 1)
    THEN {date * SecsPerDay + hour * SecsPerHour + min * SecsPerMin}
    ELSE {}

\* The zones chrono_tz::Tz::from_str accepts, of those the model draws.
KnownZones == {"UTC", "Asia/Tokyo", "America/New_York"}

LastSunday(y, m) ==
    CHOOSE n \in Days :
        /\ Ymd(y, m, 1) <= n /\ n < Ymd(y, m, 1) + days_in_month_helper(y, m)
        /\ weekday(n) = 7
        /\ n + 7 >= Ymd(y, m, 1) + days_in_month_helper(y, m)

\* Daylight-saving time in New York in the modelled years: from 02:00 EST
\* of the last Sunday of April to 02:00 EDT of the last Sunday of October.
NewYorkDst ==
    {<<LastSunday(y, 4) * SecsPerDay + 7 * SecsPerHour,
       LastSunday(y, 10) * SecsPerDay + 6 * SecsPerHour>> : y \in Years}

ZoneOffsets(tz) ==
    IF tz = "UTC" THEN {0}
    ELSE IF tz = "Asia/Tokyo" THEN {9 * SecsPerHour}
    ELSE {-5 * SecsPerHour, -4 * SecsPerHour}

\* The offset from UTC in force at instant u.
UtcOffset(tz, u) ==
    IF tz = "UTC" THEN 0
    ELSE IF tz = "Asia/Tokyo" THEN 9 * SecsPerHour
    ELSE IF \E p \in NewYorkDst : p[1] <= u /\ u < p[2] THEN -4 * SecsPerHour
    ELSE -5 * SecsPerHour

\* DateTime::with_timezone(&tz).date_naive()
date_naive(tz, u) == (u + UtcOffset(tz, u)) \div SecsPerDay

\* TimeZone::from_local_datetime: the instants whose local time is `local`;
\* none in a gap, two in a fold.
from_local_datetime(tz, local) ==
    {u \in {local - o : o \in ZoneOffsets(tz)} : u + UtcOffset(tz, u) = local}

earliest(r) == IF r = {} THEN {} ELSE {CHOOSE u \in r : \A v \in r : u <= v}
latest(r) == IF r = {} THEN {} ELSE {CHOOSE u \in r : \A v \in r : u >= v}
single(r) == IF Cardinality(r) = 1 THEN r ELSE {}
or_else(a, b) == IF a # {} THEN a ELSE b
Some(o) == CHOOSE v \in o : TRUE

\* timestamp() * 1000 + timestamp_subsec_millis() of a whole-second instant.
TimestampMs(u) == [s |-> u, ms |-> 0]
MsLt(a, b) == a.s < b.s \/ (a.s = b.s /\ a.ms < b.ms)

RECURSIVE Flatten(_)
Flatten(ss) == IF ss = <<>> THEN <<>> ELSE Head(ss) \o Flatten(Tail(ss))

\* The dates a `while current_date <= last` loop visits, in order.
DatesFromTo(first, last) == [i \in 1..(last - first + 1) |-> first + i - 1]


(***************************************************************************)
(* Recurrence expanders.                                                   *)
(***************************************************************************)
TruncRem(x, y) == x - y * TruncDiv(x, y)

\* The instance of a daily, monthly or yearly rule on target_date: its two
\* boundaries as instants, or nothing when a wall time does not exist.
ResolveInstance(target_date, h0, h1, tz) ==
    LET start_time == and_hms_opt(target_date, TruncDiv(h0, MinsPerHour),
                                  TruncRem(h0, MinsPerHour))
        end_time_opt ==
            IF h1 >= MinsPerDay THEN and_hms_opt(target_date + 1, 0, 0)
            ELSE and_hms_opt(target_date, TruncDiv(h1, MinsPerHour),
                             TruncRem(h1, MinsPerHour))
    IN  IF start_time = {} \/ end_time_opt = {} THEN {}
        ELSE LET ls == from_local_datetime(tz, Some(start_time))
                 le == from_local_datetime(tz, Some(end_time_opt))
                 interval_start == or_else(earliest(ls), latest(ls))
                 interval_end == or_else(earliest(le), latest(le))
             IN  IF interval_start = {} \/ interval_end = {} THEN {}
                 ELSE {<<TimestampMs(Some(interval_start)),
                         TimestampMs(Some(interval_end))>>}

\* `if iv_end_ms > start_ms && iv_start_ms < end_ms`
OverlapsWindow(iv, start_ms, end_ms) == MsLt(start_ms, iv[2]) /\ MsLt(iv[1], end_ms)

\* What one iteration of the loop pushes to `intervals`.
InstanceOn(target_date, h0, h1, tz, start_ms, end_ms) ==
    LET inst == ResolveInstance(target_date, h0, h1, tz)
    IN  IF inst # {} /\ OverlapsWindow(Some(inst), start_ms, end_ms)
        THEN <<Some(inst)>>
        ELSE <<>>

op_expand_daily(h0, h1, tz_str, start_ms, end_ms) ==
    IF tz_str \notin KnownZones THEN Err("Invalid timezone")
    ELSE LET dates == DatesFromTo(date_naive(tz_str, start_ms.s),
                                  date_naive(tz_str, end_ms.s))
         IN  Ok(Flatten([i \in DOMAIN dates |->
                    InstanceOn(dates[i], h0, h1, tz_str, start_ms, end_ms)]))

\* One iteration of the loop of expand_weekly_days: the interval pushed, if
\* any, or the error that ends the call.
WeeklyDay(current_date, by_wday, tz, start_min, end_min) ==
    IF \A i \in 1..Len(by_wday) : by_wday[i] # weekday(current_date)
    THEN Ok(<<>>)
    ELSE LET day_start == and_hms_opt(current_date, TruncDiv(start_min, MinsPerHour),
                                      TruncRem(start_min, MinsPerHour))
             day_end == and_hms_opt(current_date, TruncDiv(end_min, MinsPerHour),
                                    TruncRem(end_min, MinsPerHour))
         IN  IF day_start = {} THEN Err("Invalid start time")
             ELSE IF single(from_local_datetime(tz, Some(day_start))) = {}
             THEN Err("Ambiguous start time in timezone")
             ELSE IF day_end = {} THEN Err("Invalid end time")
             ELSE IF single(from_local_datetime(tz, Some(day_end))) = {}
             THEN Err("Ambiguous end time in timezone")
             ELSE Ok(<< <<Some(single(from_local_datetime(tz, Some(day_start)))),
                          Some(single(from_local_datetime(tz, Some(day_end))))>> >>)

\* The result of a loop whose iterations are `per`: the first error, or all
\* the pushed intervals.
Collect(per) ==
    IF \E i \in DOMAIN per : IsErr(per[i])
    THEN per[CHOOSE i \in DOMAIN per :
                 IsErr(per[i]) /\ \A j \in 1..(i - 1) : ~IsErr(per[j])]
    ELSE Ok(Flatten([i \in DOMAIN per |-> per[i].val]))

op_expand_weekly_days(start_ts, end_ts, by_wday, tz_str, start_min, end_min) ==
    IF tz_str \notin KnownZones THEN Err("Invalid timezone")
    ELSE LET dates == DatesFromTo(date_naive(tz_str, start_ts),
                                  date_naive(tz_str, end_ts) - 1)
         IN  Collect([i \in DOMAIN dates |->
                 WeeklyDay(dates[i], by_wday, tz_str, start_min, end_min)])

\* The months a `while (current_year, current_month) <= (end_year,
\* end_month)` loop visits, each as <<year, month>>.
MonthsFromTo(y0, m0, y1, m1) ==
    [i \in 1..((y1 * 12 + m1) - (y0 * 12 + m0) + 1) |->
        <<(y0 * 12 + m0 - 1 + i - 1) \div 12, ((y0 * 12 + m0 - 1 + i - 1) % 12) + 1>>]

MonthlyDate(current_year, current_month, day_of_month) ==
    from_ymd_opt(current_year, current_month,
                 Min(day_of_month, days_in_month_helper(current_year, current_month)))

op_expand_monthly(day_of_month, h0, h1, tz_str, start_ms, end_ms) ==
    IF day_of_month < 1 \/ day_of_month > 31 THEN Err("day_of_month must be 1-31")
    ELSE IF tz_str \notin KnownZones THEN Err("Invalid timezone")
    ELSE LET sd == date_naive(tz_str, start_ms.s)
             ed == date_naive(tz_str, end_ms.s)
             months == MonthsFromTo(date_year(sd), date_month(sd),
                                    date_year(ed), date_month(ed))
         IN  Ok(Flatten([i \in DOMAIN months |->
                 LET target_date == MonthlyDate(months[i][1], months[i][2],
                                                day_of_month)
                 IN  IF target_date = {} THEN <<>>
                     ELSE InstanceOn(Some(target_date), h0, h1, tz_str,
                                     start_ms, end_ms)]))

\* Mutant: February 29 is moved to February 28 in a year that is not a
\* leap year.
YearlyDateClamped(current_year, mon, day) ==
    from_ymd_opt(current_year, mon,
                 Min(day, days_in_month_helper(current_year, mon)))

\* The date of a yearly rule in current_year: none for Feb 29 in a year
\* that is not a leap year.
YearlyDate(current_year, mon, day) ==
    IF mon = 2 /\ day = 29 /\ ~is_leap_year(current_year) THEN {}
    ELSE from_ymd_opt(current_year, mon,
                      Min(day, days_in_month_helper(current_year, mon)))

op_expand_yearly(mon, day, h0, h1, tz_str, start_ms, end_ms) ==
    IF mon < 1 \/ mon > 12 THEN Err("month must be 1-12")
    ELSE IF day < 1 \/ day > 31 THEN Err("day must be 1-31")
    ELSE IF tz_str \notin KnownZones THEN Err("Invalid timezone")
    ELSE LET y0 == date_year(date_naive(tz_str, start_ms.s))
             y1 == date_year(date_naive(tz_str, end_ms.s))
         IN  Ok(Flatten([i \in 1..(y1 - y0 + 1) |->
                 LET target_date == YearlyDate(y0 + i - 1, mon, day)
                 IN  IF target_date = {} THEN <<>>
                     ELSE InstanceOn(Some(target_date), h0, h1, tz_str,
                                     start_ms, end_ms)]))

\* The month expand_monthly_setpos expands ("For a sample month (January
\* 2024)"): the operator has no window parameter.
SampleYear == 2024
SampleMonth == 1

\* The dates of first_day..last_day that fall on wday, in order.
MatchingDates(first_day, last_day, wday) ==
    SelectSeq(DatesFromTo(first_day, last_day), LAMBDA d : weekday(d) = wday)

\* The last day of a month: the day before the first of the next one.
LastDayOfMonth(year, month) ==
    IF month = 12 THEN Some(from_ymd_opt(year + 1, 1, 1)) - 1
    ELSE Some(from_ymd_opt(year, month + 1, 1)) - 1

\* Vec::get at index n - 1 for n > 0 and at index len + n for n < 0 (an
\* index below zero is, as a usize, beyond the end).
NthMatching(matching_dates, n) ==
    LET idx == IF n > 0 THEN n - 1 ELSE Len(matching_dates) + n
    IN  IF idx >= 0 /\ idx < Len(matching_dates)
        THEN {matching_dates[idx + 1]}
        ELSE {}

\* One iteration of the loop over by_setpos.  h0 and h1 are used as hours
\* and start_min and end_min as minutes of the hour; `as u32` leaves a value
\* of 0..59 as it is and takes every other value of the harness outside
\* what and_hms_opt accepts.
SetposInstance(matching_dates, setpos, h0, h1, tz, start_min, end_min) ==
    IF setpos = 0 THEN Err("Setpos cannot be 0")
    ELSE LET date_opt == NthMatching(matching_dates, setpos)
         IN  IF date_opt = {} THEN Ok(<<>>)
             ELSE LET start_dt == and_hms_opt(Some(date_opt), h0, start_min)
                      end_dt == and_hms_opt(Some(date_opt), h1, end_min)
                  IN  IF start_dt = {} THEN Err("Invalid start time")
                      ELSE IF single(from_local_datetime(tz, Some(start_dt))) = {}
                      THEN Err("Ambiguous start time in timezone")
                      ELSE IF end_dt = {} THEN Err("Invalid end time")
                      ELSE IF single(from_local_datetime(tz, Some(end_dt))) = {}
                      THEN Err("Ambiguous end time in timezone")
                      ELSE Ok(<< <<Some(single(from_local_datetime(tz, Some(start_dt)))),
                                   Some(single(from_local_datetime(tz, Some(end_dt))))>> >>)

\* The iterations of `for &wday in &by_wday` over the month year-month: the
\* range check of wday, then one iteration for each setpos.
SetposMonth(year, month, h0, h1, by_wday, by_setpos, tz, start_min, end_min) ==
    LET first_day == Some(from_ymd_opt(year, month, 1))
        last_day == LastDayOfMonth(year, month)
    IN  Flatten([i \in DOMAIN by_wday |->
            <<IF by_wday[i] < 1 \/ by_wday[i] > 7
              THEN Err("Weekday must be 1-7") ELSE Ok(<<>>)>>
            \o [j \in DOMAIN by_setpos |->
                    SetposInstance(MatchingDates(first_day, last_day, by_wday[i]),
                                   by_setpos[j], h0, h1, tz, start_min, end_min)]])

op_expand_monthly_setpos(h0, h1, by_wday, by_setpos, tz_str, start_min, end_min) ==
    IF tz_str \notin KnownZones THEN Err("Invalid timezone")
    ELSE Collect(SetposMonth(SampleYear, SampleMonth, h0, h1, by_wday, by_setpos,
                             tz_str, start_min, end_min))

\* Mutant: a domain violation is reported as an absent date.
op_nth_weekday_of_month_lenient(year, month, wd, n, tz_str) ==
    IF wd < 1 \/ wd > 7 \/ n = 0 \/ n < -5 \/ n > 5 THEN Ok(Null)
    ELSE IF from_ymd_opt(year, month, 1) = {} THEN Ok(Null)
    ELSE LET first_day == Some(from_ymd_opt(year, month, 1))
             target_date == NthMatching(MatchingDates(first_day,
                                LastDayOfMonth(year, month), wd), n)
         IN  IF target_date = {} THEN Ok(Null)
             ELSE Ok([year |-> year, month |-> month,
                      day |-> Some(target_date) - first_day + 1])

\* The time zone argument is read and not used.
op_nth_weekday_of_month(year, month, wd, n, tz_str) ==
    IF wd < 1 \/ wd > 7 THEN Err("Weekday must be 1-7")
    ELSE IF n = 0 THEN Err("n cannot be 0")
    ELSE IF n < -5 \/ n > 5 THEN Err("n must be 1..5")
    ELSE IF from_ymd_opt(year, month, 1) = {} THEN Err("Invalid year/month")
    ELSE LET first_day == Some(from_ymd_opt(year, month, 1))
             target_date == NthMatching(MatchingDates(first_day,
                                LastDayOfMonth(year, month), wd), n)
         IN  IF target_date = {} THEN Ok(Null)
             ELSE Ok([year |-> year, month |-> month,
                      day |-> Some(target_date) - first_day + 1])


(***************************************************************************)
(* The harness of the expanders.  Init draws one call: a rule, a zone (one *)
(* of them unknown to the zone database) and a window whose two ends lie   *)
(* around week days, month ends, a leap day and the daylight-saving        *)
(* switches of 1970, on and off second boundaries.                         *)
(***************************************************************************)
MaxSpanDays == 2
DayParts == {<<540, 1020>>, <<0, 1440>>, <<90, 150>>}
WeekdayLists == {<<1>>, <<1, 2, 3, 4, 5>>, <<6, 7>>}
Zones == KnownZones \cup {"Mars/Phobos"}
ShortDates ==
    {Ymd(1970, 1, 5), Ymd(1970, 1, 6), Ymd(1970, 1, 7),
     Ymd(1970, 4, 25), Ymd(1970, 4, 26), Ymd(1970, 4, 27),
     Ymd(1970, 10, 24), Ymd(1970, 10, 25), Ymd(1970, 10, 26)}
LongDates ==
    {Ymd(1970, 1, 2), Ymd(1970, 1, 31), Ymd(1970, 2, 28), Ymd(1970, 3, 1),
     Ymd(1970, 12, 31), Ymd(1971, 1, 1), Ymd(1972, 2, 29), Ymd(1972, 3, 1),
     Ymd(1972, 12, 30)}
InstantsOn(dates, hours) ==
    {d * SecsPerDay + h * SecsPerHour : d \in dates, h \in hours}
ShortWindows ==
    {w \in InstantsOn(ShortDates, {0, 12, 18}) \X InstantsOn(ShortDates, {0, 12, 18}) :
        w[1] < w[2] /\ w[2] - w[1] <= MaxSpanDays * SecsPerDay}
LongWindows ==
    {w \in InstantsOn(LongDates, {0}) \X InstantsOn(LongDates, {0, 12}) : w[1] < w[2]}
\* A window in milliseconds: a start on or just after a second boundary.
MsWindows(ws) ==
    {<<[s |-> w[1], ms |-> m], [s |-> w[2], ms |-> 0]>> : w \in ws, m \in {0, 1}}

DailyArgs ==
    {[kind |-> "expand_daily", h0 |-> p[1], h1 |-> p[2], tz |-> z,
      start_ms |-> w[1], end_ms |-> w[2]] :
        p \in DayParts, z \in Zones, w \in MsWindows(ShortWindows)}
WeeklyArgs ==
    {[kind |-> "expand_weekly_days", start_ts |-> w[1], end_ts |-> w[2],
      by_wday |-> l, tz |-> z, start_min |-> p[1], end_min |-> p[2]] :
        w \in ShortWindows, l \in WeekdayLists, z \in Zones, p \in DayParts}
MonthlyArgs ==
    {[kind |-> "expand_monthly", day_of_month |-> d, h0 |-> p[1], h1 |-> p[2],
      tz |-> z, start_ms |-> w[1], end_ms |-> w[2]] :
        d \in {0, 1, 31}, p \in DayParts, z \in Zones, w \in MsWindows(LongWindows)}
YearlyArgs ==
    {[kind |-> "expand_yearly", month |-> md[1], day |-> md[2], h0 |-> p[1],
      h1 |-> p[2], tz |-> z, start_ms |-> w[1], end_ms |-> w[2]] :
        md \in {<<2, 29>>, <<2, 30>>, <<12, 31>>, <<13, 1>>, <<1, 32>>},
        p \in DayParts,
        z \in Zones, w \in MsWindows(LongWindows)}

\* A call of expand_monthly_setpos, with the window the caller wants
\* expanded: none of the seven parameters carries it.
SetposWindows ==
    {<<Ymd(1970, 1, 31) * SecsPerDay, Ymd(1970, 3, 1) * SecsPerDay>>,
     <<Ymd(1972, 2, 29) * SecsPerDay, Ymd(1972, 3, 1) * SecsPerDay>>}
SetposArgs ==
    {[kind |-> "expand_monthly_setpos", h0 |-> h[1], h1 |-> h[2], by_wday |-> l,
      by_setpos |-> sp, tz |-> z, start_min |-> m[1], end_min |-> m[2],
      start_ts |-> w[1], end_ts |-> w[2]] :
        h \in {<<9, 17>>, <<0, 24>>}, l \in {<<1>>, <<2, 1>>, <<1, 8>>},
        sp \in {<<1>>, <<-1, 1>>, <<5>>, <<0>>}, z \in Zones,
        m \in {<<0, 0>>, <<30, 0>>}, w \in SetposWindows}
NthArgs ==
    [kind : {"nth_weekday_of_month"}, year : {EpochYear, 1972, SampleYear},
     month : {0, 1, 2, 12, 13}, weekday : {0, 1, 5, 7, 8}, n : (-6)..6, tz : Zones]

\* By how much the second call of an expander widens the window of the
\* first: <<earlier start, later end>>, in seconds.
WidenBy ==
    {<<0, SecsPerDay>>, <<12 * SecsPerHour, 0>>, <<12 * SecsPerHour, SecsPerDay>>}

InitExpand ==
    /\ build = "release"
    /\ args \in DailyArgs \cup WeeklyArgs \cup MonthlyArgs \cup YearlyArgs
                 \cup SetposArgs \cup NthArgs
    /\ rets = <<>>
    /\ DriverIdle

ExpandCall(name, r) == Return(<<name, "wider">>, name, r)

\* The same call again with a window that contains the first one.
WiderCall(name, start, end, r) ==
    Return(<<name, "wider">>, "wider", [start |-> start, end |-> end, result |-> r])

CallExpandDaily ==
    /\ args.kind = "expand_daily"
    /\ ExpandCall("expand_daily",
           op_expand_daily(args.h0, args.h1, args.tz, args.start_ms, args.end_ms))
CallExpandWeeklyDays ==
    /\ args.kind = "expand_weekly_days"
    /\ ExpandCall("expand_weekly_days",
           op_expand_weekly_days(args.start_ts, args.end_ts, args.by_wday,
                                 args.tz, args.start_min, args.end_min))
CallExpandMonthly ==
    /\ args.kind = "expand_monthly"
    /\ ExpandCall("expand_monthly",
           op_expand_monthly(args.day_of_month, args.h0, args.h1, args.tz,
                             args.start_ms, args.end_ms))
CallExpandYearly ==
    /\ args.kind = "expand_yearly"
    /\ ExpandCall("expand_yearly",
           op_expand_yearly(args.month, args.day, args.h0, args.h1, args.tz,
                            args.start_ms, args.end_ms))

CallExpandMonthlySetpos ==
    /\ args.kind = "expand_monthly_setpos"
    /\ ExpandCall("expand_monthly_setpos",
           op_expand_monthly_setpos(args.h0, args.h1, args.by_wday, args.by_setpos,
                                    args.tz, args.start_min, args.end_min))
CallNthWeekdayOfMonth ==
    /\ args.kind = "nth_weekday_of_month"
    /\ ExpandCall("nth_weekday_of_month",
           op_nth_weekday_of_month(args.year, args.month, args.weekday, args.n,
                                   args.tz))

CallExpandDailyWider ==
    /\ args.kind = "expand_daily"
    /\ \E by \in WidenBy :
           LET s == [args.start_ms EXCEPT !.s = @ - by[1]]
               e == [args.end_ms EXCEPT !.s = @ + by[2]]
           IN  WiderCall("expand_daily", s, e,
                         op_expand_daily(args.h0, args.h1, args.tz, s, e))
CallExpandWeeklyDaysWider ==
    /\ args.kind = "expand_weekly_days"
    /\ \E by \in WidenBy :
           LET s == args.start_ts - by[1]
               e == args.end_ts + by[2]
           IN  WiderCall("expand_weekly_days", s, e,
                         op_expand_weekly_days(s, e, args.by_wday, args.tz,
                                               args.start_min, args.end_min))
CallExpandMonthlyWider ==
    /\ args.kind = "expand_monthly"
    /\ \E by \in WidenBy :
           LET s == [args.start_ms EXCEPT !.s = @ - by[1]]
               e == [args.end_ms EXCEPT !.s = @ + by[2]]
           IN  WiderCall("expand_monthly", s, e,
                         op_expand_monthly(args.day_of_month, args.h0, args.h1,
                                           args.tz, s, e))
CallExpandYearlyWider ==
    /\ args.kind = "expand_yearly"
    /\ \E by \in WidenBy :
           LET s == [args.start_ms EXCEPT !.s = @ - by[1]]
               e == [args.end_ms EXCEPT !.s = @ + by[2]]
           IN  WiderCall("expand_yearly", s, e,
                         op_expand_yearly(args.month, args.day, args.h0, args.h1,
                                          args.tz, s, e))

NextExpand ==
    \/ CallExpandDaily
    \/ CallExpandWeeklyDays
    \/ CallExpandMonthly
    \/ CallExpandYearly
    \/ CallExpandMonthlySetpos
    \/ CallNthWeekdayOfMonth
    \/ CallExpandDailyWider
    \/ CallExpandWeeklyDaysWider
    \/ CallExpandMonthlyWider
    \/ CallExpandYearlyWider

SpecExpand == InitExpand /\ [][NextExpand]_vars

\* The instances of each rule, whatever the window, tabulated for the rules
\* the harness draws.
DailyRule ==
    [p \in DayParts, z \in KnownZones |->
        UNION {ResolveInstance(d, p[1], p[2], z) : d \in Days}]
WeeklyRule ==
    [l \in WeekdayLists, z \in KnownZones, p \in DayParts |->
        {r.val[1] : r \in {x \in {WeeklyDay(d, l, z, p[1], p[2]) : d \in Days} :
                              IsOk(x) /\ x.val # <<>>}}]
MonthlyRule(day_of_month, h0, h1, tz) ==
    UNION {ResolveInstance(Some(MonthlyDate(ym[1], ym[2], day_of_month)), h0, h1, tz) :
               ym \in Years \X (1..12)}
YearlyRule(mon, day, h0, h1, tz) ==
    UNION {ResolveInstance(Some(YearlyDate(y, mon, day)), h0, h1, tz) :
               y \in {x \in Years : YearlyDate(x, mon, day) # {}}}
Returned(name) == {rets[name].val[i] : i \in 1..Len(rets[name].val)}
Succeeded(name) == args.kind = name /\ Called(name) /\ IsOk(rets[name])

(***************************************************************************)
(* C10 (as stated).  For expand_daily, expand_weekly_days, expand_monthly  *)
(* and expand_yearly, the intervals a successful call returns are exactly  *)
(* the instances [s, e) of the rule with s < window_end and                *)
(* e > window_start: none lies entirely outside the window and no          *)
(* overlapping instance is left out.                                       *)
(***************************************************************************)
C10_OutputIffOverlap ==
    /\ Succeeded("expand_daily") =>
           Returned("expand_daily") =
               {iv \in DailyRule[<<args.h0, args.h1>>, args.tz] :
                    MsLt(iv[1], args.end_ms) /\ MsLt(args.start_ms, iv[2])}
    /\ Succeeded("expand_weekly_days") =>
           Returned("expand_weekly_days") =
               {iv \in WeeklyRule[args.by_wday, args.tz, <<args.start_min, args.end_min>>] :
                    iv[1] < args.end_ts /\ iv[2] > args.start_ts}
    /\ Succeeded("expand_monthly") =>
           Returned("expand_monthly") =
               {iv \in MonthlyRule(args.day_of_month, args.h0, args.h1, args.tz) :
                    MsLt(iv[1], args.end_ms) /\ MsLt(args.start_ms, iv[2])}
    /\ Succeeded("expand_yearly") =>
           Returned("expand_yearly") =
               {iv \in YearlyRule(args.month, args.day, args.h0, args.h1, args.tz) :
                    MsLt(iv[1], args.end_ms) /\ MsLt(args.start_ms, iv[2])}

ExpanderNames ==
    {"expand_daily", "expand_weekly_days", "expand_monthly",
     "expand_monthly_setpos", "expand_yearly"}

\* The instant of a returned boundary: expand_weekly_days and
\* expand_monthly_setpos return seconds, the others milliseconds.
BoundarySecs(name, b) ==
    IF name \in {"expand_weekly_days", "expand_monthly_setpos"} THEN b ELSE b.s

\* No earlier instant has the local wall time of u.
EarliestOfItsWallTime(tz, u) ==
    \A v \in from_local_datetime(tz, u + UtcOffset(tz, u)) : u <= v

(***************************************************************************)
(* C11 (as stated).  In every recurrence expander a local start or end     *)
(* wall time in a daylight-saving gap or fold never makes the call return  *)
(* an error: the call does not fail for an ambiguous or missing wall time, *)
(* and every boundary returned is the earliest instant of its wall time.   *)
(***************************************************************************)
C11_DstNeverRaises ==
    \A name \in ExpanderNames :
        (args.kind = name /\ Called(name)) =>
            /\ IsErr(rets[name]) =>
                   rets[name].val \notin {"Ambiguous start time in timezone",
                                          "Ambiguous end time in timezone"}
            /\ IsOk(rets[name]) =>
                   \A i \in 1..Len(rets[name].val) : \A k \in 1..2 :
                       EarliestOfItsWallTime(args.tz,
                           BoundarySecs(name, rets[name].val[i][k]))

(***************************************************************************)
(* C12 (as stated).  For every recurrence expander that takes a window, if *)
(* window W1 is contained in window W2 then the call for W2 succeeds where *)
(* the call for W1 did and returns every interval returned for W1.         *)
(***************************************************************************)
C12_WiderWindowKeeps ==
    \A name \in ExpanderNames \ {"expand_monthly_setpos"} :
        (Succeeded(name) /\ Called("wider")) =>
            /\ IsOk(rets["wider"].result)
            /\ Returned(name) \subseteq
                   {rets["wider"].result.val[i] :
                        i \in 1..Len(rets["wider"].result.val)}

\* The occurrences a monthly-by-setpos rule selects in the calendar months
\* that intersect the window [start_ts, end_ts).
SetposRule(h0, h1, by_wday, by_setpos, tz, start_min, end_min, start_ts, end_ts) ==
    LET sd == date_naive(tz, start_ts)
        ed == date_naive(tz, end_ts - 1)
        months == MonthsFromTo(date_year(sd), date_month(sd),
                               date_year(ed), date_month(ed))
        per(i) == SetposMonth(months[i][1], months[i][2], h0, h1, by_wday,
                              by_setpos, tz, start_min, end_min)
    IN  UNION {{per(i)[j].val[1] :
                   j \in {k \in DOMAIN per(i) :
                              IsOk(per(i)[k]) /\ per(i)[k].val # <<>>}} :
               i \in DOMAIN months}

(***************************************************************************)
(* C13 (as stated).  expand_monthly_setpos returns, for each calendar      *)
(* month that intersects the window the caller wants expanded, the         *)
(* selected positional occurrences of the requested weekdays within that   *)
(* month.                                                                  *)
(***************************************************************************)
C13_SetposFollowsWindow ==
    Succeeded("expand_monthly_setpos") =>
        Returned("expand_monthly_setpos") =
            SetposRule(args.h0, args.h1, args.by_wday, args.by_setpos, args.tz,
                       args.start_min, args.end_min, args.start_ts, args.end_ts)

(***************************************************************************)
(* C14 (as stated).  The list every recurrence expander returns is in      *)
(* nondecreasing order of interval start, for every order of the weekday   *)
(* list and the setpos list passed by the caller.                          *)
(***************************************************************************)
C14_NondecreasingStarts ==
    \A name \in ExpanderNames :
        Succeeded(name) =>
            \A i \in 1..(Len(rets[name].val) - 1) :
                BoundarySecs(name, rets[name].val[i][1])
                    <= BoundarySecs(name, rets[name].val[i + 1][1])

\* The indices of the returned intervals that start in local year y.
ReturnedInYear(name, y) ==
    {i \in 1..Len(rets[name].val) :
         date_year(date_naive(args.tz, rets[name].val[i][1].s)) = y}

(***************************************************************************)
(* C15.  expand_yearly(month, day) returns at most one instance per        *)
(* calendar year of the window, exactly one (the instance of that date)    *)
(* for each year in which the date exists and its interval overlaps the    *)
(* window; for month = 2, day = 29 it returns no instance for a year that  *)
(* is not a leap year.                                                     *)
(***************************************************************************)
C15_YearlyOnePerYear ==
    Succeeded("expand_yearly") =>
        \A y \in Years :
            LET date == from_ymd_opt(y, args.month, args.day)
                inst == IF date = {} THEN {}
                        ELSE ResolveInstance(Some(date), args.h0, args.h1, args.tz)
                here == ReturnedInYear("expand_yearly", y)
            IN  /\ Cardinality(here) <= 1
                /\ (inst # {} /\ OverlapsWindow(Some(inst), args.start_ms, args.end_ms))
                       => \E i \in here : rets["expand_yearly"].val[i] = Some(inst)
                /\ (args.month = 2 /\ args.day = 29 /\ ~is_leap_year(y))
                       => here = {}

\* A February 29 rule was expanded over a window that spans a year that is
\* not a leap year and the leap day of the next: one instance came back.
C15_Witness ==
    /\ Succeeded("expand_yearly")
    /\ args.month = 2 /\ args.day = 29
    /\ date_year(date_naive(args.tz, args.start_ms.s)) = 1971
    /\ Len(rets["expand_yearly"].val) = 1
    /\ ReturnedInYear("expand_yearly", 1972) = {1}

\* The dates of year-month that are the n-th wd of the month, counted from
\* the start for n > 0 and from the end for n < 0: one date or none.
NthWeekdayDates(year, month, wd, n) ==
    LET first == Some(from_ymd_opt(year, month, 1))
        days == {d \in first..(first + days_in_month_helper(year, month) - 1) :
                     weekday(d) = wd}
    IN  {d \in days :
            Cardinality({e \in days : IF n > 0 THEN e < d ELSE e > d})
                = (IF n > 0 THEN n ELSE -n) - 1}

NthDomainViolation ==
    \/ args.month \notin 1..12
    \/ args.weekday \notin 1..7
    \/ args.n = 0 \/ args.n < -5 \/ args.n > 5

NthCalled == args.kind = "nth_weekday_of_month" /\ Called("nth_weekday_of_month")

Error(kind, what) == Err([error |-> kind, what |-> what])
Cancelled(at) == Error("Cancelled", at)
DuplicateGraph(file_id) == Error("DuplicateGraph", file_id)
UnknownFile(file_id) == Error("UnknownFile", file_id)
MissingData(file_id) == Error("MissingData", file_id)
DeserializeBlob(what) == Error("DeserializeBlob", what)
Query(source_pos) == Error("Query", source_pos.file_id)

(***************************************************************************)
(* SourcePos.  A string is the sequence of its characters; a byte offset   *)
(* is a u32, whose width is scaled down to U32Bits bits.                    *)
(***************************************************************************)
U32Bits == 6
U32Max == 2 ^ U32Bits - 1

DigitChars == <<"0", "1", "2", "3", "4", "5", "6", "7", "8", "9">>
IsDigit(c) == \E d \in DOMAIN DigitChars : DigitChars[d] = c
DigitValue(c) == (CHOOSE d \in DOMAIN DigitChars : DigitChars[d] = c) - 1

\* The decimal digits of n, as Display for u32 writes them.
RECURSIVE Decimal(_)
Decimal(n) ==
    IF n < 10 THEN <<DigitChars[n + 1]>>
    ELSE Decimal(n \div 10) \o <<DigitChars[(n % 10) + 1]>>

\* The digits of str::parse::<u32> accumulated from the left: the value, or
\* -1 when a character is not a digit or the value leaves u32.
RECURSIVE AccumulateDigits(_, _)
AccumulateDigits(chars, acc) ==
    IF chars = <<>> THEN acc
    ELSE IF ~IsDigit(Head(chars)) THEN -1
    ELSE IF acc * 10 + DigitValue(Head(chars)) > U32Max THEN -1
    ELSE AccumulateDigits(Tail(chars), acc * 10 + DigitValue(Head(chars)))

\* str::parse::<u32>: an optional "+", then at least one digit.
parse_u32(chars) ==
    LET digits == IF chars # <<>> /\ Head(chars) = "+" THEN Tail(chars) ELSE chars
    IN  IF digits = <<>> \/ AccumulateDigits(digits, 0) < 0
        THEN Err("ParseIntError")
        ELSE Ok(AccumulateDigits(digits, 0))

\* s.bytes().rev().position(|b| b == b':') on the first `len` bytes of s:
\* the number of bytes behind the last colon, {} when there is none.
RevPositionOfColon(s, len) ==
    LET colons == {i \in 1..len : s[i] = ":"}
    IN  IF colons = {} THEN {}
        ELSE {len - (CHOOSE i \in colons : \A j \in colons : j <= i)}

MissingColon(which) == Error("MissingColon", which)
InvalidByteOffset(which) == Error("InvalidByteOffset", which)

\* Mutant: the string is split at its first two colons.
from_str_first_colons(s) ==
    LET colons == {i \in 1..Len(s) : s[i] = ":"}
    IN  IF Cardinality(colons) < 2 THEN MissingColon("end")
        ELSE LET c1 == CHOOSE i \in colons : \A j \in colons : i <= j
                 c2 == CHOOSE i \in colons \ {c1} : \A j \in colons \ {c1} : i <= j
                 start_byte == parse_u32(SubSeq(s, c1 + 1, c2 - 1))
                 end_byte == parse_u32(SubSeq(s, c2 + 1, Len(s)))
             IN  IF IsErr(start_byte) THEN InvalidByteOffset("start")
                 ELSE IF IsErr(end_byte) THEN InvalidByteOffset("end")
                 ELSE Ok([file_id |-> SubSeq(s, 1, c1 - 1),
                          byte_range |-> <<start_byte.val, end_byte.val>>])

\* impl FromStr for SourcePos
from_str(s) ==
    IF RevPositionOfColon(s, Len(s)) = {} THEN MissingColon("end")
    ELSE LET pos_colon_1 == Some(RevPositionOfColon(s, Len(s)))
         IN  IF RevPositionOfColon(s, Len(s) - pos_colon_1 - 1) = {}
             THEN MissingColon("start")
             ELSE LET pos_colon_2 ==
                          Some(RevPositionOfColon(s, Len(s) - pos_colon_1 - 1))
                      end_byte == SubSeq(s, Len(s) - pos_colon_1 + 1, Len(s))
                      start_byte == SubSeq(s, Len(s) - pos_colon_1 - 1 - pos_colon_2 + 1,
                                           Len(s) - pos_colon_1 - 1)
                      file_id == SubSeq(s, 1, Len(s) - pos_colon_1 - 2 - pos_colon_2)
                  IN  IF IsErr(parse_u32(start_byte)) THEN InvalidByteOffset("start")
                      ELSE IF IsErr(parse_u32(end_byte)) THEN InvalidByteOffset("end")
                      ELSE Ok([file_id |-> file_id,
                               byte_range |-> <<parse_u32(start_byte).val,
                                                parse_u32(end_byte).val>>])

\* impl Display for SourcePos: "{file_id}:{start}:{end}"
to_string(source_pos) ==
    source_pos.file_id \o <<":">> \o Decimal(source_pos.byte_range[1])
        \o <<":">> \o Decimal(source_pos.byte_range[2])

\* SourcePos values are printed and the result parsed back; other strings
\* are parsed as they are.
FileIdChars == {"a", ":", "7"}
MaxFileIdLen == 2
FileIdSamples == UNION {[1..n -> FileIdChars] : n \in 0..MaxFileIdLen}
Offsets == {0, 7, 10, U32Max}
TextSamples ==
    {<<>>, <<"a">>, <<"a", ":", "1">>, <<":", ":">>, <<"a", ":", "x", ":", "1">>,
     <<"a", ":", "1", ":", "-", "1">>, <<"a", ":", "+", "1", ":", "0", "7">>,
     <<"a", ":", "0", ":">> \o Decimal(U32Max + 1),
     <<"a", ":", "b", ":", "2", ":", "3">>}
SourcePosOrder == <<"to_string", "from_str", "from_text">>

InitSourcePos ==
    /\ build = "release"
    /\ args \in [kind : {"source_pos"}, file_id : FileIdSamples,
                 start : Offsets, end : Offsets, text : TextSamples]
    /\ rets = <<>>
    /\ DriverIdle

SourcePosCall(name, r) ==
    args.kind = "source_pos" /\ Return(SourcePosOrder, name, r)

CallToString ==
    SourcePosCall("to_string",
                  Ok(to_string([file_id |-> args.file_id,
                                byte_range |-> <<args.start, args.end>>])))
CallFromStr ==
    /\ Called("to_string")
    /\ SourcePosCall("from_str", from_str(rets["to_string"].val))
CallFromText == SourcePosCall("from_text", from_str(args.text))

NextSourcePos == CallToString \/ CallFromStr \/ CallFromText

SpecSourcePos == InitSourcePos /\ [][NextSourcePos]_vars

\* The indices of the last two colons of a string that has two.
LastTwoColons(s) ==
    LET colons == {i \in 1..Len(s) : s[i] = ":"}
        last == CHOOSE i \in colons : \A j \in colons : j <= i
    IN  <<CHOOSE i \in colons \ {last} : \A j \in colons \ {last} : j <= i, last>>

(***************************************************************************)
(* C25.  For every file ID, including ones that contain colons, and every  *)
(* start and end of a u32, parsing the printed form file:start:end yields  *)
(* the same (file ID, start, end); a string that parses is split at its    *)
(* last two colons and everything before them is the file ID.              *)
(***************************************************************************)
C25_ParsePrintRoundTrip ==
    args.kind = "source_pos" =>
        /\ Called("from_str") =>
               /\ IsOk(rets["from_str"])
               /\ rets["from_str"].val.file_id = args.file_id
               /\ rets["from_str"].val.byte_range = <<args.start, args.end>>
        /\ (Called("from_text") /\ IsOk(rets["from_text"])) =>
               /\ Cardinality({i \in 1..Len(args.text) : args.text[i] = ":"}) >= 2
               /\ rets["from_text"].val.file_id
                      = SubSeq(args.text, 1, LastTwoColons(args.text)[1] - 1)

\* A file ID with a colon and a two-digit offset went through print and
\* parse.
C25_Witness ==
    /\ args.kind = "source_pos"
    /\ Called("from_str") /\ IsOk(rets["from_str"])
    /\ \E i \in DOMAIN args.file_id : args.file_id[i] = ":"
    /\ rets["from_str"].val.file_id = args.file_id
    /\ args.end >= 10
    /\ Called("from_text") /\ IsOk(rets["from_text"])
    /\ Len(rets["from_text"].val.file_id) > 1


Unloaded(x) == <<"Unloaded", x>>
Loaded == <<"Loaded">>
IsUnloaded(ls) == ls[1] = "Unloaded"

RootNode == <<"<root>", 0>>
RefRange == <<1, 2>>
DefRange == <<5, 8>>
RefLocalId == 1
DefLocalId == 2

\* The nodes a "graph" blob of file_id holds: a reference and a definition.
\* The definition of c.py has no span: its source info is 0..0.
NodesOfFile(file_id) ==
    <<[file |-> file_id, local_id |-> RefLocalId, range |-> RefRange],
      [file |-> file_id, local_id |-> DefLocalId,
       range |-> IF file_id = "c.py" THEN <<0, 0>> ELSE DefRange]>>

\* node_byte_range: the byte range of the node, none when it is 0..0.
node_byte_range(node) ==
    IF node.range[1] = 0 /\ node.range[2] = 0 THEN {} ELSE {node.range}
\* The node of the graph with this ID.
NodeAt(id) ==
    LET nodes == NodesOfFile(id[1])
    IN  nodes[CHOOSE j \in DOMAIN nodes : nodes[j].local_id = id[2]]

\* What a node-path blob of the node `key` deserializes to.
DecodeNodePath(key, blob) ==
    IF blob = "root"
    THEN [start |-> key, end |-> RootNode, pre |-> <<>>, post |-> <<"foo">>,
          precedence |-> 0]
    ELSE [start |-> key, end |-> <<key[1], DefLocalId>>, pre |-> <<>>,
          post |-> <<>>, precedence |-> IF blob = "def_hi" THEN 1 ELSE 0]

\* What a root-path blob of file_id deserializes to.
DecodeRootPath(file_id) ==
    [start |-> RootNode, end |-> <<file_id, DefLocalId>>, pre |-> <<"foo">>,
     post |-> <<>>, precedence |-> 0]

\* PartialSymbolStackExt::key_patterns_from_storage_key: the key itself,
\* then a LIKE pattern for each prefix of its symbols that ends before a
\* separator, then the LIKE pattern of all its symbols.
key_patterns_from_storage_key(key) ==
    LET symbols == Tail(key)
    IN  <<key>>
        \o [i \in 1..(Len(symbols) - 1) |->
                <<"_">> \o SubSeq(symbols, 1, i) \o <<"%">>]
        \o << <<"_">> \o symbols \o <<"%">> >>

\* PartialSymbolStackExt::storage_key_patterns_from_path
storage_key_patterns_from_path(symbols, has_variable) ==
    [i \in 1..Len(symbols) |-> <<"V">> \o SubSeq(symbols, 1, i)]
    \o << <<"X">> \o symbols >>
    \o (IF has_variable THEN << <<"_">> \o symbols \o <<"US", "%">> >> ELSE <<>>)

\* TryFrom<Tuple> for GraphBlob, NodePathBlob and RootPathBlob: a tuple whose
\* blob column holds a number instead of bytes is refused.
try_into(tuple) ==
    IF tuple.blob = "number" THEN Error("Tuple", "ElemType") ELSE Ok(tuple)

RECURSIVE IndexGraphBlobs(_, _)
IndexGraphBlobs(rows, indexed) ==
    IF rows = <<>> THEN Ok(indexed)
    ELSE IF IsErr(try_into(Head(rows))) THEN try_into(Head(rows))
    ELSE IF Head(rows).file_id \in DOMAIN indexed
         THEN DuplicateGraph(Head(rows).file_id)
         ELSE IndexGraphBlobs(Tail(rows),
                  indexed @@ (Head(rows).file_id :> Unloaded(Head(rows).blob)))

RECURSIVE IndexNodePathBlobs(_, _, _)
IndexNodePathBlobs(rows, indexed_graph_blobs, indexed) ==
    IF rows = <<>> THEN Ok(indexed)
    ELSE LET row == Head(rows)
             node_id == <<row.file_id, row.start_node_local_id>>
         IN  IF IsErr(try_into(row)) THEN try_into(row)
             ELSE IF row.file_id \notin DOMAIN indexed_graph_blobs
             THEN UnknownFile(row.file_id)
             ELSE IndexNodePathBlobs(Tail(rows), indexed_graph_blobs,
                      IF node_id \in DOMAIN indexed
                      THEN [indexed EXCEPT
                                ![node_id] = Unloaded(Append(@[2], row.blob))]
                      ELSE indexed @@ (node_id :> Unloaded(<<row.blob>>)))

RECURSIVE PushIdx(_, _, _)
PushIdx(index, patterns, idx) ==
    IF patterns = <<>> THEN index
    ELSE PushIdx(IF Head(patterns) \in DOMAIN index
                 THEN [index EXCEPT ![Head(patterns)] = Append(@, idx)]
                 ELSE index @@ (Head(patterns) :> <<idx>>),
                 Tail(patterns), idx)

\* The loop over the root-path rows: no row is compared with the graph rows.
RECURSIVE IndexRootPathBlobs(_, _, _)
IndexRootPathBlobs(rows, root_paths_index, all_root_path_blobs) ==
    IF rows = <<>>
    THEN Ok([root_paths_index |-> root_paths_index,
             root_path_blobs |-> all_root_path_blobs])
    ELSE IF IsErr(try_into(Head(rows))) THEN try_into(Head(rows))
    ELSE IndexRootPathBlobs(Tail(rows),
             PushIdx(root_paths_index,
                     key_patterns_from_storage_key(
                         Head(rows).precondition_symbol_stack),
                     Len(all_root_path_blobs) + 1),
             Append(all_root_path_blobs,
                    Unloaded(<<Head(rows).file_id, Head(rows).blob>>)))

\* State::new
State_new(graph_blobs, node_path_blobs, root_path_blobs) ==
    LET g == IndexGraphBlobs(graph_blobs, <<>>)
    IN  IF IsErr(g) THEN g
        ELSE LET n == IndexNodePathBlobs(node_path_blobs, g.val, <<>>)
             IN  IF IsErr(n) THEN n
                 ELSE LET r == IndexRootPathBlobs(root_path_blobs, <<>>, <<>>)
                      IN  IF IsErr(r) THEN r
                          ELSE
                          Ok([graph_blobs |-> g.val,
                              node_path_blobs |-> n.val,
                              root_paths_index |-> r.val.root_paths_index,
                              root_path_blobs |-> r.val.root_path_blobs,
                              graph |-> {}, partials |-> <<>>,
                              root_path_symbol_stacks_files |-> <<>>,
                              missing_files |-> [some |-> FALSE, files |-> <<>>]])

\* The fourth argument of State::new, the rows of the symbol-stack-to-file
\* index: each file is filed under the key patterns of its symbol stack.
RECURSIVE IndexSymbolStackFiles(_, _)
IndexSymbolStackFiles(rows, index) ==
    IF rows = <<>> THEN index
    ELSE IndexSymbolStackFiles(Tail(rows),
             PushIdx(index,
                     key_patterns_from_storage_key(Head(rows).root_path_symbol_stack),
                     Head(rows).file_id))

\* The missing-file list is an Option<Vec<_>>: it exists only while
\* definitions runs with output_missing_files set.
NoMissingFiles == [some |-> FALSE, files |-> <<>>]
EmptyMissingFiles == [some |-> TRUE, files |-> <<>>]

\* The files the index lists under symbol_stack_pattern for which no graph
\* blob is registered are appended to the missing-file list, if it exists.
RecordMissingFiles(s, symbol_stack_pattern) ==
    IF ~s.missing_files.some
       \/ symbol_stack_pattern \notin DOMAIN s.root_path_symbol_stacks_files
    THEN s
    ELSE [s EXCEPT !.missing_files.files =
             @ \o SelectSeq(s.root_path_symbol_stacks_files[symbol_stack_pattern],
                            LAMBDA f : f \notin DOMAIN s.graph_blobs)]

\* Mutant: the list is read and left as it is.
TakeMissingFilesKept(s) == s

\* Vec::drain(..) leaves the list empty.
TakeMissingFiles(s) ==
    IF s.missing_files.some THEN [s EXCEPT !.missing_files.files = <<>>] ELSE s

\* State::load_graph_for_file_inner: the state after the call, or the error.
load_graph_for_file_inner_lenient(s, file_id) ==
    IF file_id \notin DOMAIN s.graph_blobs THEN Ok(s)
    ELSE IF ~IsUnloaded(s.graph_blobs[file_id])
         THEN (IF file_id \in s.graph THEN Ok(s) ELSE MissingData(file_id))
    ELSE IF s.graph_blobs[file_id][2] = "corrupt" THEN DeserializeBlob(file_id)
    ELSE Ok([s EXCEPT !.graph_blobs[file_id] = Loaded,
                      !.graph = @ \cup {file_id}])

load_graph_for_file_inner(s, file_id) ==
    IF file_id \notin DOMAIN s.graph_blobs THEN MissingData(file_id)
    ELSE IF ~IsUnloaded(s.graph_blobs[file_id])
         THEN (IF file_id \in s.graph THEN Ok(s) ELSE MissingData(file_id))
    ELSE IF s.graph_blobs[file_id][2] = "corrupt" THEN DeserializeBlob(file_id)
    ELSE Ok([s EXCEPT !.graph_blobs[file_id] = Loaded,
                      !.graph = @ \cup {file_id}])

\* State::load_nodes: the nodes of the file at the byte range of source_pos.
load_nodes(s, source_pos) ==
    LET r == load_graph_for_file_inner(s, source_pos.file_id)
    IN  IF IsErr(r) THEN r
        ELSE Ok([state |-> r.val,
                 nodes |-> SelectSeq(NodesOfFile(source_pos.file_id),
                               LAMBDA n : node_byte_range(n) = {source_pos.byte_range})])

\* The body of the loop of load_paths_for_node after its cancellation
\* check: one blob is deserialized and its path added to the database.
AddNodePath(s, blob_key, blob) ==
    IF blob = "corrupt" THEN DeserializeBlob(blob_key[1])
    ELSE Ok([s EXCEPT !.partials = Append(@, DecodeNodePath(blob_key, blob))])

\* The loop over the blobs of one node in load_paths_for_node.
RECURSIVE AddNodePaths(_, _, _, _)
AddNodePaths(s, blob_key, blobs, poisoned) ==
    IF blobs = <<>> THEN Ok(s)
    ELSE IF poisoned THEN Cancelled("loading node paths")
    ELSE LET r == AddNodePath(s, blob_key, Head(blobs))
         IN  IF IsErr(r) THEN r
             ELSE AddNodePaths(r.val, blob_key, Tail(blobs), poisoned)

load_paths_for_node(s, node, poisoned) ==
    IF node \notin DOMAIN s.node_path_blobs THEN Ok(s)
    ELSE IF ~IsUnloaded(s.node_path_blobs[node]) THEN Ok(s)
    ELSE AddNodePaths([s EXCEPT !.node_path_blobs[node] = Loaded], node,
                      s.node_path_blobs[node][2], poisoned)

\* The body of the loop over the indices of one pattern after its
\* cancellation check: the entry is taken, the graph of its file loaded,
\* its blob deserialized and its path added to the database.
AddRootPathKept(s, idx) ==
    IF ~IsUnloaded(s.root_path_blobs[idx]) THEN Ok(s)
    ELSE LET file == s.root_path_blobs[idx][2][1]
             blob == s.root_path_blobs[idx][2][2]
             g == load_graph_for_file_inner(s, file)
         IN  IF IsErr(g) THEN g
             ELSE IF blob = "corrupt" THEN DeserializeBlob(file)
             ELSE Ok([g.val EXCEPT !.partials = Append(@, DecodeRootPath(file))])

AddRootPath(s, idx) ==
    IF ~IsUnloaded(s.root_path_blobs[idx]) THEN Ok(s)
    ELSE LET file == s.root_path_blobs[idx][2][1]
             blob == s.root_path_blobs[idx][2][2]
             g == load_graph_for_file_inner(
                      [s EXCEPT !.root_path_blobs[idx] = Loaded], file)
         IN  IF IsErr(g) THEN g
             ELSE IF blob = "corrupt" THEN DeserializeBlob(file)
             ELSE Ok([g.val EXCEPT !.partials = Append(@, DecodeRootPath(file))])

\* The loop over the indices one pattern maps to in load_paths_for_root.
RECURSIVE AddRootPaths(_, _, _)
AddRootPaths(s, idxs, poisoned) ==
    IF idxs = <<>> THEN Ok(s)
    ELSE IF poisoned THEN Cancelled("loading root paths")
    ELSE LET r == AddRootPath(s, Head(idxs))
         IN  IF IsErr(r) THEN r ELSE AddRootPaths(r.val, Tail(idxs), poisoned)

RECURSIVE LoadPatterns(_, _, _)
LoadPatterns(s0, symbol_stack_patterns, poisoned) ==
    IF symbol_stack_patterns = <<>> THEN Ok(s0)
    ELSE LET s == RecordMissingFiles(s0, Head(symbol_stack_patterns))
         IN  IF Head(symbol_stack_patterns) \notin DOMAIN s.root_paths_index
             THEN LoadPatterns(s, Tail(symbol_stack_patterns), poisoned)
             ELSE LET r == AddRootPaths(s,
                               s.root_paths_index[Head(symbol_stack_patterns)],
                               poisoned)
                  IN  IF IsErr(r) THEN r
                      ELSE LoadPatterns(r.val, Tail(symbol_stack_patterns), poisoned)

\* symbol_stack: its symbols and whether it ends in a variable.
load_paths_for_root(s, symbol_stack, poisoned) ==
    LoadPatterns(s, storage_key_patterns_from_path(symbol_stack.symbols,
                                                   symbol_stack.has_variable),
                 poisoned)

load_partial_path_extensions(s, path, poisoned) ==
    IF path.end # RootNode THEN load_paths_for_node(s, path.end, poisoned)
    ELSE load_paths_for_root(s, [symbols |-> path.post, has_variable |-> FALSE],
                             poisoned)

\* load_partial_path_extensions for each path of `paths` in turn.
RECURSIVE LoadExtensions(_, _, _)
LoadExtensions(s, paths, poisoned) ==
    IF paths = <<>> THEN Ok(s)
    ELSE LET r == load_partial_path_extensions(s, Head(paths), poisoned)
         IN  IF IsErr(r) THEN r ELSE LoadExtensions(r.val, Tail(paths), poisoned)

\* The paths of the database that start at one of `nodes`.
PathsFrom(s, nodes) ==
    SelectSeq(s.partials,
              LAMBDA p : \E i \in 1..Len(nodes) :
                             p.start = <<nodes[i].file, nodes[i].local_id>>)

\* The complete paths the stitcher reports for `nodes`: a path that ends at
\* a definition, or a path to the root joined with each root path whose
\* precondition is the symbol stack it leaves.
Join(p, q) == [p EXCEPT !.end = q.end, !.post = q.post]
CompletePaths(s, nodes) ==
    LET from == PathsFrom(s, nodes)
        roots == SelectSeq(s.partials, LAMBDA q : q.start = RootNode)
    IN  Flatten([i \in DOMAIN from |->
            IF from[i].end # RootNode THEN <<from[i]>>
            ELSE LET m == SelectSeq(roots, LAMBDA q : q.pre = from[i].post)
                 IN  [j \in DOMAIN m |-> Join(from[i], m[j])]])

\* PartialPath::shadows: `other` and `path` leave the same node and the
\* first edge of `other` has the higher precedence.
shadows(other, path) ==
    other.start = path.start /\ other.precedence > path.precedence

ActualPathsUnfiltered(all_paths) == all_paths

ActualPaths(all_paths) ==
    SelectSeq(all_paths,
              LAMBDA path : \A i \in DOMAIN all_paths : ~shadows(all_paths[i], path))

\* The resolutions of one reference that carry a definition.
Resolutions(ref_source_pos, actual_paths) ==
    Flatten([i \in DOMAIN actual_paths |->
        LET byte_range == node_byte_range(NodeAt(actual_paths[i].end))
        IN  IF byte_range = {} THEN <<>>
            ELSE <<[reference |-> ref_source_pos, kind |-> "Definition",
                    what |-> [file_id |-> actual_paths[i].end[1],
                              byte_range |-> Some(byte_range)]]>>])

\* The resolutions the drained missing-file list yields for one reference.
MissingFileResolutions(ref_source_pos, files) ==
    [i \in DOMAIN files |->
        [reference |-> ref_source_pos, kind |-> "MissingFile", what |-> files[i]]]

\* The file IDs of the rows are atomic names: in a string such a name is one
\* character, and a parsed file ID of any other length names no file.
FileIdOf(chars) == IF Len(chars) = 1 THEN chars[1] ELSE "?"

\* resolution.reference.to_string(), definition.to_string()
SourcePosToString(p) ==
    to_string([file_id |-> <<p.file_id>>, byte_range |-> p.byte_range])

\* The options timeout and max_bytes: expr_option(name, None)?, then
\* get_non_neg_int().ok_or(InvalidType)?.
NonNegInt(n) == [is |-> "int", val |-> n]
AbsentOption == [is |-> "absent", val |-> 0]
WrongTypeOption == [is |-> "invalid", val |-> 0]
non_neg_int_option(name, option) ==
    IF option.is = "absent" THEN Error("MissingOption", name)
    ELSE IF option.is = "invalid" THEN Error("SourcePos", "InvalidType")
    ELSE Ok(option.val)

\* references.into_iter().map(|s| s.parse::<SourcePos>()).collect(): the
\* positions, or the error of the first string that does not parse.
RECURSIVE ParseReferences(_)
ParseReferences(references) ==
    IF references = <<>> THEN Ok(<<>>)
    ELSE LET p == from_str(Head(references))
             rest == ParseReferences(Tail(references))
         IN  IF IsErr(p) THEN Error("SourcePos", "Parse")
             ELSE IF IsErr(rest) THEN rest
             ELSE Ok(<<[file_id |-> FileIdOf(p.val.file_id),
                        byte_range |-> p.val.byte_range]>> \o rest.val)

\* The option references: a list of strings, each of which is parsed.
source_poss(is_list, references) ==
    IF ~is_list THEN Error("SourcePos", "InvalidType")
    ELSE ParseReferences(references)

\* The row run puts for a resolution.
Row(resolution) ==
    IF resolution.kind = "Definition"
    THEN <<SourcePosToString(resolution.reference),
           SourcePosToString(resolution.what), Null>>
    ELSE <<SourcePosToString(resolution.reference), Null, resolution.what>>

\* Mutant: the option is read whether or not the index was given.
output_missing_files_from_option(index_given, option) ==
    IF option = "invalid" THEN Error("OutputMissingFiles", "")
    ELSE Ok(option # "false")

\* bool_option("output_missing_files", Some(true)), evaluated only when the
\* index was given (`&&`).
output_missing_files(index_given, option) ==
    IF ~index_given THEN Ok(FALSE)
    ELSE IF option = "invalid" THEN Error("OutputMissingFiles", "")
    ELSE Ok(option # "false")


(***************************************************************************)
(* StackGraphQuery::run as a state machine.  Init draws the three input    *)
(* relations (each in the order of its rows, as a stored relation is       *)
(* iterated) and the list of references; another thread may set the        *)
(* Poison flag between any two steps.                                      *)
(***************************************************************************)
MaxRows == 3
MaxRefs == 2

GraphRowUniverse ==
    <<[file_id |-> "a.py", blob |-> "corrupt"], [file_id |-> "a.py", blob |-> "graph"],
      [file_id |-> "b.py", blob |-> "corrupt"], [file_id |-> "b.py", blob |-> "graph"]>>
NodePathRowUniverse ==
    <<[file_id |-> "a.py", start_node_local_id |-> RefLocalId, blob |-> "corrupt"],
      [file_id |-> "a.py", start_node_local_id |-> RefLocalId, blob |-> "def"],
      [file_id |-> "a.py", start_node_local_id |-> RefLocalId, blob |-> "def_hi"],
      [file_id |-> "a.py", start_node_local_id |-> RefLocalId, blob |-> "root"],
      [file_id |-> "b.py", start_node_local_id |-> RefLocalId, blob |-> "corrupt"],
      [file_id |-> "b.py", start_node_local_id |-> RefLocalId, blob |-> "def"],
      [file_id |-> "b.py", start_node_local_id |-> RefLocalId, blob |-> "def_hi"],
      [file_id |-> "b.py", start_node_local_id |-> RefLocalId, blob |-> "root"]>>
RootPathRowUniverse ==
    <<[file_id |-> "a.py", precondition_symbol_stack |-> <<"X", "foo">>, blob |-> "corrupt"],
      [file_id |-> "a.py", precondition_symbol_stack |-> <<"X", "foo">>, blob |-> "def"],
      [file_id |-> "b.py", precondition_symbol_stack |-> <<"X", "foo">>, blob |-> "corrupt"],
      [file_id |-> "b.py", precondition_symbol_stack |-> <<"X", "foo">>, blob |-> "def"]>>
RefSamples ==
    {[file_id |-> "a.py", byte_range |-> RefRange],
     [file_id |-> "b.py", byte_range |-> RefRange],
     [file_id |-> "a.py", byte_range |-> <<3, 4>>]}

\* The string of a reference.
RefString(p) == to_string([file_id |-> <<p.file_id>>, byte_range |-> p.byte_range])

\* The rows of `universe` whose index is in S, in order.
RECURSIVE PickFrom(_, _, _)
PickFrom(universe, S, i) ==
    IF i > Len(universe) THEN <<>>
    ELSE (IF i \in S THEN <<universe[i]>> ELSE <<>>) \o PickFrom(universe, S, i + 1)

InitDriver ==
    /\ build = "release"
    /\ \E G \in SUBSET DOMAIN GraphRowUniverse,
          N \in SUBSET DOMAIN NodePathRowUniverse,
          R \in SUBSET DOMAIN RootPathRowUniverse,
          k \in 0..MaxRefs :
            /\ Cardinality(G) + Cardinality(N) + Cardinality(R) <= MaxRows
            /\ \E refs \in [1..k -> RefSamples] :
                   args = [kind |-> "stack_graph",
                           graphs |-> PickFrom(GraphRowUniverse, G, 1),
                           node_paths |-> PickFrom(NodePathRowUniverse, N, 1),
                           root_paths |-> PickFrom(RootPathRowUniverse, R, 1),
                           index_given |-> FALSE, index |-> <<>>,
                           output_missing_files |-> "absent",
                           timeout |-> NonNegInt(0), max_bytes |-> NonNegInt(0),
                           references_is_list |-> TRUE,
                           references |-> [i \in 1..k |-> RefString(refs[i])]]
    /\ rets = <<>>
    /\ pc = "new" /\ st = NoState /\ loc = NoLocals
    /\ out = <<>> /\ poison = FALSE /\ now = 0

\* Mutant: the rows of the references resolved so far are put before the
\* error is returned.
FailAfterPut(e) ==
    /\ pc' = "done"
    /\ rets' = ("run" :> e)
    /\ out' = [i \in DOMAIN loc.resolutions |-> Row(loc.resolutions[i])]
    /\ UNCHANGED <<build, args, st, loc, poison, now>>

\* An error leaves run through `?`: nothing is put.
Fail(e) ==
    /\ pc' = "done"
    /\ rets' = ("run" :> e)
    /\ UNCHANGED <<build, args, st, loc, out, poison, now>>

Goto(label, s, l) ==
    /\ pc' = label /\ st' = s /\ loc' = l
    /\ UNCHANGED <<build, args, rets, out, poison, now>>

\* run up to the call of definitions: State::new over the input relations,
\* then the options timeout, max_bytes, references and output_missing_files
\* in this order; the values of timeout and max_bytes are not used.
RunNew ==
    /\ pc = "new"
    /\ LET r == State_new(args.graphs, args.node_paths, args.root_paths)
           timeout == non_neg_int_option("timeout", args.timeout)
           max_bytes == non_neg_int_option("max_bytes", args.max_bytes)
           p == source_poss(args.references_is_list, args.references)
           o == output_missing_files(args.index_given, args.output_missing_files)
       IN  IF IsErr(r) THEN Fail(r)
           ELSE IF IsErr(timeout) THEN Fail(timeout)
           ELSE IF IsErr(max_bytes) THEN Fail(max_bytes)
           ELSE IF IsErr(p) THEN Fail(p)
           ELSE IF IsErr(o) THEN Fail(o)
           ELSE Goto("next_ref",
                     [r.val EXCEPT
                          !.root_path_symbol_stacks_files =
                              IndexSymbolStackFiles(args.index, <<>>),
                          !.missing_files =
                              IF o.val THEN EmptyMissingFiles ELSE NoMissingFiles],
                     [loc EXCEPT !.source_poss = p.val])

\* Mutant: a reference that matches no node is passed over.
NextReferenceSkipping ==
    /\ pc = "next_ref"
    /\ loc.ref_idx <= Len(loc.source_poss)
    /\ IF poison THEN Fail(Cancelled("finding next reference"))
       ELSE LET ref_source_pos == loc.source_poss[loc.ref_idx]
                r == load_nodes(st, ref_source_pos)
            IN  IF IsErr(r) THEN Fail(r)
                ELSE IF r.val.nodes = <<>>
                THEN Goto("next_ref", r.val.state,
                          [loc EXCEPT !.ref_idx = @ + 1])
                ELSE Goto("stitch", r.val.state, [loc EXCEPT !.nodes = r.val.nodes])

\* The head of the loop of Querier::definitions: the cancellation check,
\* load_nodes and the test for an empty node list.
NextReference ==
    /\ pc = "next_ref"
    /\ loc.ref_idx <= Len(loc.source_poss)
    /\ IF poison THEN Fail(Cancelled("finding next reference"))
       ELSE LET ref_source_pos == loc.source_poss[loc.ref_idx]
                r == load_nodes(st, ref_source_pos)
            IN  IF IsErr(r) THEN Fail(r)
                ELSE IF r.val.nodes = <<>> THEN Fail(Query(ref_source_pos))
                ELSE Goto("stitch", r.val.state, [loc EXCEPT !.nodes = r.val.nodes])

\* From the end of one blob's load to the point where the next blob is
\* about to be loaded, which is where the next cancellation check stands:
\* the rest of load_paths_for_root's patterns (a pattern without entries is
\* passed over), then load_partial_path_extensions for the next pending
\* path (a node without blobs, or whose blobs were taken, is passed over),
\* until the pending paths are exhausted and the phase `back` follows.
RECURSIVE Advance(_, _)
Advance(s, l) ==
    IF l.patterns # <<>>
    THEN LET s1 == RecordMissingFiles(s, Head(l.patterns))
         IN  IF Head(l.patterns) \in DOMAIN s1.root_paths_index
             THEN [pc |-> "root_paths", st |-> s1,
                   loc |-> [l EXCEPT !.patterns = Tail(@),
                                     !.idxs = s1.root_paths_index[Head(l.patterns)]]]
             ELSE Advance(s1, [l EXCEPT !.patterns = Tail(@)])
    ELSE IF l.pending = <<>>
    THEN [pc |-> l.back, st |-> s, loc |-> [l EXCEPT !.back = ""]]
    ELSE LET path == Head(l.pending)
             l1 == [l EXCEPT !.pending = Tail(@)]
         IN  IF path.end = RootNode
             THEN Advance(s, [l1 EXCEPT !.patterns =
                                  storage_key_patterns_from_path(path.post, FALSE)])
             ELSE IF path.end \notin DOMAIN s.node_path_blobs
                     \/ ~IsUnloaded(s.node_path_blobs[path.end])
             THEN Advance(s, l1)
             ELSE [pc |-> "node_paths",
                   st |-> [s EXCEPT !.node_path_blobs[path.end] = Loaded],
                   loc |-> [l1 EXCEPT !.blob_key = path.end,
                                      !.blobs = s.node_path_blobs[path.end][2]]]

GotoNextLoad(s, l) ==
    LET a == Advance(s, l) IN Goto(a.pc, a.st, a.loc)

\* The first phase of the stitcher: the extensions of the reference's nodes
\* are asked for.
StitchNodePaths ==
    /\ pc = "stitch"
    /\ IF poison THEN Fail(Cancelled("stitching"))
       ELSE GotoNextLoad(st,
                [loc EXCEPT !.back = "stitch_root",
                            !.pending =
                                [i \in DOMAIN loc.nodes |->
                                    [end |-> <<loc.nodes[i].file,
                                               loc.nodes[i].local_id>>]]])

\* The second phase of the stitcher: the extensions of the paths found are
\* asked for.
StitchRootPaths ==
    /\ pc = "stitch_root"
    /\ IF PathsFrom(st, loc.nodes) = <<>> THEN Goto("shadow", st, loc)
       ELSE IF poison THEN Fail(Cancelled("stitching"))
       ELSE GotoNextLoad(st, [loc EXCEPT !.back = "shadow",
                                         !.pending = PathsFrom(st, loc.nodes)])

\* Mutant: the blob is loaded without a look at the flag.
LoadNodePathBlobUnchecked ==
    /\ pc = "node_paths"
    /\ LET r == AddNodePath(st, loc.blob_key, Head(loc.blobs))
       IN  IF IsErr(r) THEN Fail(r)
           ELSE IF Tail(loc.blobs) # <<>>
           THEN Goto("node_paths", r.val, [loc EXCEPT !.blobs = Tail(@)])
           ELSE GotoNextLoad(r.val, [loc EXCEPT !.blobs = <<>>, !.blob_key = <<>>])

\* One iteration of the loop of load_paths_for_node: the cancellation check,
\* then the blob.
LoadNodePathBlob ==
    /\ pc = "node_paths"
    /\ IF poison THEN Fail(Cancelled("loading node paths"))
       ELSE LET r == AddNodePath(st, loc.blob_key, Head(loc.blobs))
            IN  IF IsErr(r) THEN Fail(r)
                ELSE IF Tail(loc.blobs) # <<>>
                THEN Goto("node_paths", r.val, [loc EXCEPT !.blobs = Tail(@)])
                ELSE GotoNextLoad(r.val,
                         [loc EXCEPT !.blobs = <<>>, !.blob_key = <<>>])

\* One iteration of the loop over the indices of a pattern in
\* load_paths_for_root: the cancellation check, then the entry.
LoadRootPathBlob ==
    /\ pc = "root_paths"
    /\ IF poison THEN Fail(Cancelled("loading root paths"))
       ELSE LET r == AddRootPath(st, Head(loc.idxs))
            IN  IF IsErr(r) THEN Fail(r)
                ELSE IF Tail(loc.idxs) # <<>>
                THEN Goto("root_paths", r.val, [loc EXCEPT !.idxs = Tail(@)])
                ELSE GotoNextLoad(r.val, [loc EXCEPT !.idxs = <<>>])

\* The shadowing loop: one step for each path of all_paths, the cancellation
\* check and then the path's shadow check; after the last path the actual
\* paths become resolutions, followed by the drained missing-file list.
Shadow ==
    /\ pc = "shadow"
    /\ LET all_paths == CompletePaths(st, loc.nodes)
       IN  IF loc.path_idx <= Len(all_paths)
           THEN (IF poison THEN Fail(Cancelled("shadowing"))
                 ELSE Goto("shadow", st, [loc EXCEPT !.path_idx = @ + 1]))
           ELSE Goto("next_ref", TakeMissingFiles(st),
                     [NoLocals EXCEPT
                          !.source_poss = loc.source_poss,
                          !.ref_idx = loc.ref_idx + 1,
                          !.resolutions = loc.resolutions
                              \o Resolutions(loc.source_poss[loc.ref_idx],
                                             ActualPaths(all_paths))
                              \o MissingFileResolutions(
                                     loc.source_poss[loc.ref_idx],
                                     st.missing_files.files)])

\* definitions puts the previous missing-file list back and returns
\* Ok(resolutions); run puts one row for each.
ReturnDefinitions ==
    /\ pc = "next_ref"
    /\ loc.ref_idx > Len(loc.source_poss)
    /\ pc' = "done"
    /\ rets' = ("run" :> Ok(Null))
    /\ st' = [st EXCEPT !.missing_files = NoMissingFiles]
    /\ out' = [i \in DOMAIN loc.resolutions |-> Row(loc.resolutions[i])]
    /\ UNCHANGED <<build, args, loc, poison, now>>

\* Another thread (a timeout, a kill request) sets the flag.
SetPoison ==
    /\ pc \notin {"done", "idle"}
    /\ ~poison
    /\ poison' = TRUE
    /\ UNCHANGED <<build, args, rets, pc, st, loc, out, now>>

NextDriver ==
    \/ RunNew
    \/ NextReference
    \/ StitchNodePaths
    \/ StitchRootPaths
    \/ LoadNodePathBlob
    \/ LoadRootPathBlob
    \/ Shadow
    \/ ReturnDefinitions
    \/ SetPoison

SpecDriver == InitDriver /\ [][NextDriver]_vars

\* The rule called on a subgraph, with or without the symbol-stack-to-file
\* index and with each value of the output_missing_files option: the blobs
\* are well-formed, a.py refers through the root node to a definition that
\* b.py or a file outside the subgraph holds.
IndexRowUniverse ==
    <<[root_path_symbol_stack |-> <<"X", "foo">>, file_id |-> "b.py"],
      [root_path_symbol_stack |-> <<"X", "foo">>, file_id |-> "c.py"]>>
OptionValues == {"absent", "true", "false", "invalid"}

InitMissing ==
    /\ build = "release"
    /\ \E G \in SUBSET {2, 4}, N \in SUBSET {2, 4, 6}, R \in SUBSET {4},
          I \in SUBSET DOMAIN IndexRowUniverse, given \in BOOLEAN,
          option \in OptionValues, k \in 0..MaxRefs :
            /\ ~given => I = {}
            /\ \E refs \in [1..k -> RefSamples] :
                   args = [kind |-> "stack_graph",
                           graphs |-> PickFrom(GraphRowUniverse, G, 1),
                           node_paths |-> PickFrom(NodePathRowUniverse, N, 1),
                           root_paths |-> PickFrom(RootPathRowUniverse, R, 1),
                           index_given |-> given,
                           index |-> PickFrom(IndexRowUniverse, I, 1),
                           output_missing_files |-> option,
                           timeout |-> NonNegInt(0), max_bytes |-> NonNegInt(0),
                           references_is_list |-> TRUE,
                           references |-> [i \in 1..k |-> RefString(refs[i])]]
    /\ rets = <<>>
    /\ pc = "new" /\ st = NoState /\ loc = NoLocals
    /\ out = <<>> /\ poison = FALSE /\ now = 0

SpecMissing == InitMissing /\ [][NextDriver]_vars

\* The rule called with inputs that may be invalid: a tuple with a number in
\* its blob column, an option that is missing or has the wrong type, a
\* references option that is not a list or holds a string that does not
\* parse; two graph rows of a.py, or a node-path row of b.py, make the
\* inputs structurally wrong as well.  Time passes while the rule runs.
MaxNow == 2
OptionGraphRows ==
    <<GraphRowUniverse[1], GraphRowUniverse[2],
      [file_id |-> "b.py", blob |-> "number"]>>
OptionNodePathRows ==
    <<NodePathRowUniverse[4], NodePathRowUniverse[6],
      [file_id |-> "a.py", start_node_local_id |-> DefLocalId, blob |-> "number"]>>
OptionRootPathRows == <<RootPathRowUniverse[2]>>
TimeoutValues == {AbsentOption, WrongTypeOption, NonNegInt(0), NonNegInt(1),
                  NonNegInt(MaxNow)}
ReferenceStrings ==
    {RefString([file_id |-> "a.py", byte_range |-> RefRange]), <<"a.py", ":", "1">>}

InitOptions ==
    /\ build = "release"
    /\ \E G \in SUBSET DOMAIN OptionGraphRows, N \in SUBSET DOMAIN OptionNodePathRows,
          R \in SUBSET DOMAIN OptionRootPathRows,
          timeout \in TimeoutValues, max_bytes \in {WrongTypeOption, NonNegInt(0)},
          is_list \in BOOLEAN, k \in 0..MaxRefs :
            /\ ~is_list => k = 0
            /\ \E refs \in [1..k -> ReferenceStrings] :
                   args = [kind |-> "stack_graph",
                           graphs |-> PickFrom(OptionGraphRows, G, 1),
                           node_paths |-> PickFrom(OptionNodePathRows, N, 1),
                           root_paths |-> PickFrom(OptionRootPathRows, R, 1),
                           index_given |-> FALSE, index |-> <<>>,
                           output_missing_files |-> "absent",
                           timeout |-> timeout, max_bytes |-> max_bytes,
                           references_is_list |-> is_list,
                           references |-> refs]
    /\ rets = <<>>
    /\ pc = "new" /\ st = NoState /\ loc = NoLocals
    /\ out = <<>> /\ poison = FALSE /\ now = 0

\* A millisecond passes while the rule runs.
Tick ==
    /\ pc \notin {"done", "idle"}
    /\ now < MaxNow
    /\ now' = now + 1
    /\ UNCHANGED <<build, args, rets, pc, st, loc, out, poison>>

NextOptions == NextDriver \/ Tick

SpecOptions == InitOptions /\ [][NextOptions]_vars

\* The rule called on two files that each hold a reference and definitions
\* reached directly and through the root, with the references in any order.
OrderGraphRows == <<GraphRowUniverse[2], GraphRowUniverse[4]>>
OrderNodePathRows ==
    <<NodePathRowUniverse[2], NodePathRowUniverse[4], NodePathRowUniverse[6]>>
OrderRootPathRows == <<RootPathRowUniverse[2], RootPathRowUniverse[4]>>
OrderRefSamples ==
    {[file_id |-> "a.py", byte_range |-> RefRange],
     [file_id |-> "b.py", byte_range |-> RefRange]}

InitOrder ==
    /\ build = "release"
    /\ \E G \in SUBSET DOMAIN OrderGraphRows, N \in SUBSET DOMAIN OrderNodePathRows,
          R \in SUBSET DOMAIN OrderRootPathRows, k \in 0..MaxRefs :
            \E refs \in [1..k -> OrderRefSamples] :
                args = [kind |-> "stack_graph",
                        graphs |-> PickFrom(OrderGraphRows, G, 1),
                        node_paths |-> PickFrom(OrderNodePathRows, N, 1),
                        root_paths |-> PickFrom(OrderRootPathRows, R, 1),
                        index_given |-> FALSE, index |-> <<>>,
                        output_missing_files |-> "absent",
                        timeout |-> NonNegInt(0), max_bytes |-> NonNegInt(0),
                        references_is_list |-> TRUE,
                        references |-> [i \in 1..k |-> RefString(refs[i])]]
    /\ rets = <<>>
    /\ pc = "new" /\ st = NoState /\ loc = NoLocals
    /\ out = <<>> /\ poison = FALSE /\ now = 0

SpecOrder == InitOrder /\ [][NextDriver]_vars

\* load_paths_for_root called on a fresh state that holds the graph of a.py
\* and root paths of a.py under some of the storage keys below.
RootKeyUniverse ==
    << <<"V", "foo">>, <<"X", "foo">>, <<"V", "foo", "bar">>,
       <<"X", "foo", "bar">>, <<"X", "bar">> >>
RootKeyRows ==
    [i \in DOMAIN RootKeyUniverse |->
        [file_id |-> "a.py", precondition_symbol_stack |-> RootKeyUniverse[i],
         blob |-> "def"]]
SymbolStackSamples ==
    [symbols : {<<"foo">>, <<"foo", "bar">>}, has_variable : BOOLEAN]
RootLoadOrder == <<"new", "load_paths_for_root">>

InitRootLoad ==
    /\ build = "release"
    /\ \E R \in SUBSET DOMAIN RootKeyRows, symbol_stack \in SymbolStackSamples :
          args = [kind |-> "root_load",
                  graphs |-> <<GraphRowUniverse[2]>>,
                  root_paths |-> PickFrom(RootKeyRows, R, 1),
                  symbol_stack |-> symbol_stack]
    /\ rets = <<>>
    /\ DriverIdle

CallStateNew ==
    /\ args.kind = "root_load"
    /\ Return(RootLoadOrder, "new", State_new(args.graphs, <<>>, args.root_paths))
CallLoadPathsForRoot ==
    /\ args.kind = "root_load"
    /\ Called("new")
    /\ Return(RootLoadOrder, "load_paths_for_root",
              load_paths_for_root(rets["new"].val, args.symbol_stack, FALSE))

NextRootLoad == CallStateNew \/ CallLoadPathsForRoot

SpecRootLoad == InitRootLoad /\ [][NextRootLoad]_vars

\* The rule called on a.py and c.py, with node paths of different
\* precedence from the reference of a.py and paths through the root.
ShadowGraphRows ==
    <<GraphRowUniverse[2], [file_id |-> "c.py", blob |-> "graph"]>>
ShadowNodePathRows ==
    <<NodePathRowUniverse[2], NodePathRowUniverse[3], NodePathRowUniverse[4],
      [file_id |-> "c.py", start_node_local_id |-> RefLocalId, blob |-> "def"]>>
ShadowRootPathRows ==
    <<RootPathRowUniverse[2],
      [file_id |-> "c.py", precondition_symbol_stack |-> <<"X", "foo">>,
       blob |-> "def"]>>
ShadowRefSamples ==
    {[file_id |-> "a.py", byte_range |-> RefRange],
     [file_id |-> "c.py", byte_range |-> RefRange]}

InitShadow ==
    /\ build = "release"
    /\ \E G \in SUBSET DOMAIN ShadowGraphRows, N \in SUBSET DOMAIN ShadowNodePathRows,
          R \in SUBSET DOMAIN ShadowRootPathRows, k \in 0..MaxRefs :
            \E refs \in [1..k -> ShadowRefSamples] :
                args = [kind |-> "stack_graph",
                        graphs |-> PickFrom(ShadowGraphRows, G, 1),
                        node_paths |-> PickFrom(ShadowNodePathRows, N, 1),
                        root_paths |-> PickFrom(ShadowRootPathRows, R, 1),
                        index_given |-> FALSE, index |-> <<>>,
                        output_missing_files |-> "absent",
                        timeout |-> NonNegInt(0), max_bytes |-> NonNegInt(0),
                        references_is_list |-> TRUE,
                        references |-> [i \in 1..k |-> RefString(refs[i])]]
    /\ rets = <<>>
    /\ pc = "new" /\ st = NoState /\ loc = NoLocals
    /\ out = <<>> /\ poison = FALSE /\ now = 0

SpecShadow == InitShadow /\ [][NextDriver]_vars

RunFailed == "run" \in DOMAIN rets /\ IsErr(rets["run"])

(***************************************************************************)
(* C1.  When the resolution call ends with an error (missing data, a blob  *)
(* that fails to deserialize, a reference that matches no node, a          *)
(* cancellation), the output relation holds no row, also when earlier      *)
(* references of the same call had been resolved.                          *)
(***************************************************************************)
C1_ErrorWritesNoRows == RunFailed => out = <<>>

\* The call failed on a later reference after an earlier one had yielded a
\* definition.
C1_Witness ==
    /\ RunFailed
    /\ loc.ref_idx > 1
    /\ loc.resolutions # <<>>
    /\ rets["run"].val.error \in {"MissingData", "DeserializeBlob", "Query", "Cancelled"}
    /\ out = <<>>

FilesOf(rows) == {rows[i].file_id : i \in DOMAIN rows}

\* The files a node-path or root-path row names that have no graph row.
FilesWithoutGraph ==
    (FilesOf(args.node_paths) \cup FilesOf(args.root_paths)) \ FilesOf(args.graphs)

\* No two graph rows name the same file (State::new returns DuplicateGraph
\* before it looks at the path rows otherwise).
DistinctGraphs ==
    \A i, j \in DOMAIN args.graphs :
        args.graphs[i].file_id = args.graphs[j].file_id => i = j

(***************************************************************************)
(* C2 (as stated).  Given graph rows of distinct files, State::new fails   *)
(* with UnknownFile(file_id) whenever a node-path row or a root-path row   *)
(* names a file for which there is no graph row, so that no construction   *)
(* succeeds with such a row.                                               *)
(***************************************************************************)
C2_PathRowsHaveGraphs ==
    (/\ args.kind = "stack_graph" /\ pc # "new"
     /\ DistinctGraphs /\ FilesWithoutGraph # {}) =>
        /\ RunFailed
        /\ rets["run"].val.error = "UnknownFile"
        /\ rets["run"].val.what \in FilesWithoutGraph


\* Reference i of the call matches no node of its file.
MatchesNoNode(i) ==
    \A j \in DOMAIN NodesOfFile(loc.source_poss[i].file_id) :
        NodesOfFile(loc.source_poss[i].file_id)[j].range
            # loc.source_poss[i].byte_range

\* The output rows the definitions found so far would make.
RowsOf(resolutions) == [i \in DOMAIN resolutions |-> Row(resolutions[i])]

(***************************************************************************)
(* C18 as stated.  When a reference position matches no node of its file,  *)
(* the driver reports the unresolved reference and continues with the      *)
(* remaining references of the call, whose definitions are still produced: *)
(* a call that reported an unresolved reference has gone through all its   *)
(* references and has written the rows of those it resolved.               *)
(***************************************************************************)
C18_UnresolvedContinues ==
    (RunFailed /\ rets["run"].val.error = "Query") =>
        /\ loc.ref_idx > Len(loc.source_poss)
        /\ out = RowsOf(loc.resolutions)

(***************************************************************************)
(* C18 amended.  When a reference position matches no node of its file,    *)
(* the call ends there with the Query error naming that reference: no      *)
(* later reference is processed and no row is written, and a call never    *)
(* gets past a reference that matches no node.                             *)
(***************************************************************************)
C18_UnresolvedFailsCall ==
    args.kind = "stack_graph" =>
        /\ \A i \in DOMAIN loc.source_poss :
               MatchesNoNode(i) =>
                   /\ loc.ref_idx <= i
                   /\ pc = "done" => (RunFailed /\ out = <<>>)
        /\ (RunFailed /\ rets["run"].val.error = "Query") =>
               /\ loc.ref_idx \in DOMAIN loc.source_poss
               /\ MatchesNoNode(loc.ref_idx)
               /\ rets["run"].val.what = loc.source_poss[loc.ref_idx].file_id
               /\ out = <<>>

\* The first reference of two matches no node: the call ended with the Query
\* error before the second, which does match a node, was looked at.
C18_Witness ==
    /\ RunFailed
    /\ rets["run"].val.error = "Query"
    /\ Len(loc.source_poss) = 2
    /\ loc.ref_idx = 1
    /\ ~MatchesNoNode(2)
    /\ out = <<>>


\* The resolutions of `resolutions` that name a missing file.
MissingOnly(resolutions) ==
    SelectSeq(resolutions, LAMBDA r : r.kind = "MissingFile")

C20_MissesStayWithReference ==
    [][/\ pc' = "next_ref" => st'.missing_files.files = <<>>
       /\ (pc = "shadow" /\ pc' = "next_ref") =>
              LET added == SubSeq(loc'.resolutions, Len(loc.resolutions) + 1,
                                  Len(loc'.resolutions))
                  missing == MissingOnly(added)
              IN  /\ \A i \in DOMAIN added :
                         added[i].reference = loc.source_poss[loc.ref_idx]
                  /\ [i \in DOMAIN missing |-> missing[i].what]
                         = st.missing_files.files
       /\ ~(pc = "shadow" /\ pc' = "next_ref") =>
              MissingOnly(loc'.resolutions) = MissingOnly(loc.resolutions)
       /\ (pc' = "done" /\ pc = "next_ref" /\ "run" \in DOMAIN rets'
           /\ IsOk(rets'["run"])) =>
              /\ Len(out') = Len(loc.resolutions)
              /\ \A i \in DOMAIN out' :
                     /\ out'[i][1] = SourcePosToString(loc.resolutions[i].reference)
                     /\ IF loc.resolutions[i].kind = "MissingFile"
                        THEN out'[i][3] = loc.resolutions[i].what
                        ELSE out'[i][3] = Null]_vars

\* Two references: the first led through the root node to c.py, a file the
\* index names and the subgraph lacks; the second resolved inside b.py.  The
\* missing file is reported once, under the first reference.
C20_Witness ==
    /\ args.kind = "stack_graph"
    /\ pc = "done" /\ ~RunFailed
    /\ Len(loc.source_poss) = 2
    /\ loc.source_poss[1].file_id = "a.py"
    /\ loc.source_poss[2].file_id = "b.py"
    /\ Len(out) = 2
    /\ out[1][1] = SourcePosToString(loc.source_poss[1])
    /\ out[1][3] = "c.py"
    /\ out[2][1] = SourcePosToString(loc.source_poss[2])
    /\ out[2][3] = Null


\* The label of the cancellation check the driver's next step starts with,
\* "" when the step starts with none of the checks of definitions,
\* load_paths_for_node and load_paths_for_root.
CheckLabel ==
    CASE pc = "next_ref" /\ loc.ref_idx <= Len(loc.source_poss)
             -> "finding next reference"
      [] pc = "node_paths" -> "loading node paths"
      [] pc = "root_paths" -> "loading root paths"
      [] pc = "shadow" /\ loc.path_idx <= Len(CompletePaths(st, loc.nodes))
             -> "shadowing"
      [] OTHER -> ""

\* What deserialization changes: the load states, the graph, the database.
BlobStore(s) ==
    <<s.graph_blobs, s.node_path_blobs, s.root_path_blobs, s.graph, s.partials>>

(***************************************************************************)
(* C21.  The cancellation flag is checked before starting each reference,  *)
(* before each shadow check and before each blob load (graph, node-path    *)
(* and root-path blobs alike): a step taken at one of these checks while   *)
(* the flag is set ends the call with Cancelled carrying the label of that *)
(* check and changes nothing else, and while the flag is set no step       *)
(* starts a reference, makes a shadow check or deserializes a blob.        *)
(***************************************************************************)
C21_CancelledAtEveryCheck ==
    [][/\ (poison /\ CheckLabel # "") =>
              /\ pc' = "done"
              /\ rets' = ("run" :> Cancelled(CheckLabel))
              /\ st' = st /\ loc' = loc /\ out' = <<>>
       /\ (poison /\ pc \notin {"new", "idle"}) =>
              /\ BlobStore(st') = BlobStore(st)
              /\ ~(pc = "next_ref" /\ pc' = "stitch")
              /\ ~(pc = "shadow" /\ pc' = "shadow"
                   /\ loc'.path_idx > loc.path_idx)]_vars

\* The flag was set while the root paths of a reference were being loaded,
\* after a node path had been loaded: the call ended at the check in front
\* of the next root-path entry.
C21_Witness ==
    /\ RunFailed
    /\ rets["run"] = Cancelled("loading root paths")
    /\ pc = "done" /\ loc.idxs # <<>>
    /\ st.partials # <<>>
    /\ out = <<>>


(***************************************************************************)
(* C22 (as stated).  When the timeout option is a positive number of       *)
(* milliseconds, a resolution call that is still running once that much    *)
(* time has passed since it started is cancelled at its next cancellation  *)
(* check and returns Cancelled: a step the call takes at a check, at or    *)
(* after the deadline, ends it with Cancelled.                             *)
(***************************************************************************)
C22_TimeoutCancels ==
    [][/\ (/\ args.kind = "stack_graph"
           /\ args.timeout.is = "int" /\ args.timeout.val > 0
           /\ now >= args.timeout.val
           /\ CheckLabel # ""
           /\ <<pc, st, loc>>' # <<pc, st, loc>>) =>
              /\ pc' = "done"
              /\ rets' = ("run" :> Cancelled(CheckLabel))
       /\ (/\ args.kind = "stack_graph"
           /\ args.timeout.is = "int" /\ args.timeout.val = 0
           /\ ~poison /\ pc' = "done" /\ pc # "done") =>
              ~(IsErr(rets'["run"]) /\ rets'["run"].val.error = "Cancelled")]_vars

\* Some input is invalid: a tuple of the wrong shape, an option of the wrong
\* type, a references option that is no list or holds a string that does not
\* parse.
IsMalformed(rows) == \E i \in DOMAIN rows : rows[i].blob = "number"
InvalidInput ==
    \/ IsMalformed(args.graphs) \/ IsMalformed(args.node_paths)
    \/ IsMalformed(args.root_paths)
    \/ args.timeout.is = "invalid" \/ args.max_bytes.is = "invalid"
    \/ ~args.references_is_list
    \/ \E i \in DOMAIN args.references : IsErr(from_str(args.references[i]))
    \/ (args.index_given /\ args.output_missing_files = "invalid")
ValidationErrors == {"Tuple", "SourcePos", "OutputMissingFiles"}

(***************************************************************************)
(* C23 (as stated).  If an input tuple has the wrong shape, a reference    *)
(* string does not parse or a named option has the wrong type, the query   *)
(* fails with that validation error before the blob store is built and     *)
(* before any blob is loaded; no structural error (DuplicateGraph,         *)
(* UnknownFile) arising from the same inputs is reported in its place.     *)
(***************************************************************************)
C23_ValidationFirst ==
    (args.kind = "stack_graph" /\ pc # "new" /\ InvalidInput) =>
        /\ RunFailed
        /\ rets["run"].val.error \in ValidationErrors


\* Positions compared by file ID, then start byte, then end byte as numbers.
FileIdRank(file_id) == IF file_id = "a.py" THEN 1 ELSE 2
SourcePosLeq(p, q) ==
    \/ FileIdRank(p.file_id) < FileIdRank(q.file_id)
    \/ /\ p.file_id = q.file_id
       /\ \/ p.byte_range[1] < q.byte_range[1]
          \/ /\ p.byte_range[1] = q.byte_range[1]
             /\ p.byte_range[2] <= q.byte_range[2]

IsPrefix(prefix, symbols) ==
    /\ Len(prefix) <= Len(symbols)
    /\ SubSeq(symbols, 1, Len(prefix)) = prefix
\* The storage key matches a lookup for symbol_stack: V with a non-empty
\* prefix of the symbols, X with exactly the symbols, and, when the stack
\* has a variable, any key whose symbols go on after the stack's.
KeyMatchesPrefix(key, symbol_stack) ==
    key[1] = "V" /\ Len(key) > 1 /\ IsPrefix(Tail(key), symbol_stack.symbols)
KeyMatchesExactly(key, symbol_stack) ==
    key = <<"X">> \o symbol_stack.symbols
KeyMatchesCompletion(key, symbol_stack) ==
    /\ symbol_stack.has_variable
    /\ IsPrefix(symbol_stack.symbols, Tail(key))
    /\ Len(Tail(key)) > Len(symbol_stack.symbols)
RootLoadDone ==
    /\ args.kind = "root_load"
    /\ Called("load_paths_for_root")
    /\ IsOk(rets["load_paths_for_root"])

(***************************************************************************)
(* C27 (as stated).  After load_paths_for_root succeeds for a symbol-stack *)
(* postcondition, every supplied root-path blob whose storage key matches  *)
(* a lookup pattern has been taken and is in the partial-path database:    *)
(* the V keys of the prefixes, the exact X key and, when the postcondition *)
(* has a variable, every key that continues the symbols.                   *)
(***************************************************************************)
C27_MatchingRootPathsLoaded ==
    RootLoadDone =>
        LET s == rets["load_paths_for_root"].val
            matching == {i \in DOMAIN args.root_paths :
                \/ KeyMatchesPrefix(args.root_paths[i].precondition_symbol_stack,
                                    args.symbol_stack)
                \/ KeyMatchesExactly(args.root_paths[i].precondition_symbol_stack,
                                     args.symbol_stack)
                \/ KeyMatchesCompletion(args.root_paths[i].precondition_symbol_stack,
                                        args.symbol_stack)}
        IN  /\ \A i \in matching : ~IsUnloaded(s.root_path_blobs[i])
            /\ Len(s.partials) >= Cardinality(matching)


\* The entries of a blob collection that have been taken.
TakenBlobs(blobs) == {k \in DOMAIN blobs : ~IsUnloaded(blobs[k])}
\* The partial paths of the database that start at `node`.
PartialsFrom(s, node) == SelectSeq(s.partials, LAMBDA q : q.start = node)
\* The node-path rows supplied for `node`.
NodePathRowsOf(node) ==
    SelectSeq(args.node_paths,
              LAMBDA row : <<row.file_id, row.start_node_local_id>> = node)

(***************************************************************************)
(* C26.  Within one resolution call every blob is taken for                *)
(* deserialization at most once: a graph blob, a node's list of node-path  *)
(* blobs or a root-path blob that is Loaded stays Loaded in every step,    *)
(* the database gains a root path only in a step that takes a root-path    *)
(* blob, it never holds more root paths than root-path blobs were taken,   *)
(* and it holds paths of a node only when that node's list was taken, no   *)
(* more of them than rows were supplied for the node.                      *)
(***************************************************************************)
C26_BlobsTakenOnce ==
    [][(args.kind = "stack_graph" /\ pc # "new") =>
          /\ TakenBlobs(st.graph_blobs) \subseteq TakenBlobs(st'.graph_blobs)
          /\ TakenBlobs(st.node_path_blobs) \subseteq TakenBlobs(st'.node_path_blobs)
          /\ TakenBlobs(st.root_path_blobs) \subseteq TakenBlobs(st'.root_path_blobs)
          /\ Len(PartialsFrom(st', RootNode)) - Len(PartialsFrom(st, RootNode))
                <= Cardinality(TakenBlobs(st'.root_path_blobs)
                                 \ TakenBlobs(st.root_path_blobs))
          /\ Len(PartialsFrom(st', RootNode))
                <= Cardinality(TakenBlobs(st'.root_path_blobs))
          /\ \A node \in DOMAIN st'.node_path_blobs :
                /\ Len(PartialsFrom(st', node)) <= Len(NodePathRowsOf(node))
                /\ PartialsFrom(st', node) # <<>> =>
                      node \in TakenBlobs(st'.node_path_blobs)]_vars

\* Two references were resolved through the root, one after the other, and
\* the root path they share is in the database once.
C26_Witness ==
    /\ args.kind = "stack_graph"
    /\ pc = "done" /\ ~RunFailed
    /\ Len(out) = 2
    /\ Len(st.partials) = 2
    /\ Len(PartialsFrom(st, RootNode)) = 1
    /\ \E i \in DOMAIN st.partials : st.partials[i].end = RootNode
    /\ TakenBlobs(st.root_path_blobs) = DOMAIN st.root_path_blobs


\* The file a partial path belongs to: the file of its start node, or of its
\* end node when it starts at the root.
PathFile(q) == IF q.start = RootNode THEN q.end[1] ELSE q.start[1]

(***************************************************************************)
(* C28.  At every point of a resolution call every partial path of the     *)
(* database belongs to a file whose graph is in the stack graph; a step    *)
(* takes the node-path blobs of a node only when the node's file was       *)
(* loaded before the step, and the stack graph never loses a file.         *)
(***************************************************************************)
C28_PathsOfLoadedFiles ==
    [][(args.kind = "stack_graph" /\ pc # "new") =>
          /\ \A i \in DOMAIN st'.partials : PathFile(st'.partials[i]) \in st'.graph
          /\ \A node \in TakenBlobs(st'.node_path_blobs)
                            \ TakenBlobs(st.node_path_blobs) : node[1] \in st.graph
          /\ st.graph \subseteq st'.graph]_vars

\* A reference of a.py was resolved through the root to a definition of
\* b.py: the root path of b.py is in the database and b.py's graph is loaded.
C28_Witness ==
    /\ args.kind = "stack_graph"
    /\ pc = "done" /\ ~RunFailed
    /\ \A i \in DOMAIN loc.source_poss : loc.source_poss[i].file_id = "a.py"
    /\ \E i \in DOMAIN st.partials :
          /\ st.partials[i].start = RootNode
          /\ st.partials[i].end[1] = "b.py"
    /\ "b.py" \in st.graph
    /\ out # <<>>


\* The step that ends the shadowing loop of a reference, its complete paths
\* and the definition rows it adds.
ShadowingEnds == pc = "shadow" /\ pc' = "next_ref"
NewDefinitions ==
    SelectSeq(SubSeq(loc'.resolutions, Len(loc.resolutions) + 1,
                     Len(loc'.resolutions)),
              LAMBDA r : r.kind = "Definition")
Unshadowed(all_paths) ==
    {i \in DOMAIN all_paths :
        \A j \in DOMAIN all_paths : ~shadows(all_paths[j], all_paths[i])}
HasByteRange(path) == node_byte_range(NodeAt(path.end)) # {}
\* The definition rows are those of the paths `yielding`, one row each.
RowsAreOf(all_paths, yielding) ==
    /\ Len(NewDefinitions) = Cardinality(yielding)
    /\ \A i \in yielding : \E j \in DOMAIN NewDefinitions :
          /\ NewDefinitions[j].reference = loc.source_poss[loc.ref_idx]
          /\ NewDefinitions[j].what.file_id = all_paths[i].end[1]
          /\ NewDefinitions[j].what.byte_range = NodeAt(all_paths[i].end).range
    /\ \A j \in DOMAIN NewDefinitions : \E i \in yielding :
          NewDefinitions[j].what.file_id = all_paths[i].end[1]

(***************************************************************************)
(* C29 (amended).  For each reference, a complete path p found by the      *)
(* stitcher yields a definition row if and only if no complete path found  *)
(* for the same reference shadows p and the end node of p has a byte       *)
(* range; the check ranges over the complete paths of that reference only. *)
(***************************************************************************)
C29_UnshadowedWithRangeYieldRows ==
    [][ShadowingEnds =>
          LET all_paths == CompletePaths(st, loc.nodes)
          IN  RowsAreOf(all_paths,
                        {i \in Unshadowed(all_paths) : HasByteRange(all_paths[i])})]_vars

(***************************************************************************)
(* C29 (as stated).  For each reference, a complete path p found by the    *)
(* stitcher yields a definition row if and only if no complete path found  *)
(* for the same reference shadows p.                                       *)
(***************************************************************************)
C29_UnshadowedYieldRows ==
    [][ShadowingEnds =>
          LET all_paths == CompletePaths(st, loc.nodes)
          IN  RowsAreOf(all_paths, Unshadowed(all_paths))]_vars

\* A call resolved a reference of a.py whose two direct paths shadow one
\* another and whose path through the root ends at the definition of c.py,
\* which has no byte range: one row came out of three complete paths.
C29_Witness ==
    /\ args.kind = "stack_graph"
    /\ pc = "done" /\ ~RunFailed
    /\ Len(loc.source_poss) = 1
    /\ Len(st.partials) >= 4
    /\ \E i, j \in DOMAIN st.partials : shadows(st.partials[i], st.partials[j])
    /\ \E i \in DOMAIN st.partials :
          st.partials[i].end # RootNode /\ ~HasByteRange(st.partials[i])
    /\ Len(out) = 1


(***************************************************************************)
(* NewRocksDbTx: a storage transaction over an ordered key-value store.    *)
(* st.db is the committed store (0: the key is absent), st.db_tx the       *)
(* transaction handle, absent once commit has taken it, with the writes    *)
(* the transaction has made; rets holds the last operation and its result. *)
(***************************************************************************)
MaxKey == 2
MaxVal == 2
TxKeys == 1..MaxKey
TxVals == 1..MaxVal
TxBounds == 1..(MaxKey + 1)
AlreadyCommitted == Err("Transaction already committed")
ExpectPanic == [tag |-> "panic", val |-> "Transaction already committed"]
\* What the transaction reads at key: its own write, else the store.
TxView(db_tx, db, key) ==
    IF key \in DOMAIN db_tx.writes THEN db_tx.writes[key] ELSE db[key]
TxWrite(db_tx, key, val) ==
    [db_tx EXCEPT !.writes = [k \in DOMAIN @ \cup {key} |->
                                 IF k = key THEN val ELSE @[k]]]
\* The pairs the transaction reads from lower up to, not including, upper.
RECURSIVE TxScan(_, _, _, _)
TxScan(db_tx, db, lower, upper) ==
    IF lower >= upper \/ lower > MaxKey THEN <<>>
    ELSE (IF TxView(db_tx, db, lower) = 0 THEN <<>>
          ELSE << <<lower, TxView(db_tx, db, lower)>> >>)
         \o TxScan(db_tx, db, lower + 1, upper)
RECURSIVE TxDeleteAll(_, _)
TxDeleteAll(db_tx, pairs) ==
    IF pairs = <<>> THEN db_tx
    ELSE TxDeleteAll(TxWrite(db_tx, Head(pairs)[1], 0), Tail(pairs))

InitTx ==
    /\ build = "release"
    /\ args = [kind |-> "tx"]
    /\ rets = <<>>
    /\ pc = "tx"
    /\ \E db \in [TxKeys -> {0} \cup TxVals] :
          st = [db_tx |-> {[writes |-> <<>>]}, db |-> db]
    /\ loc = NoLocals /\ out = <<>> /\ poison = FALSE /\ now = 0

\* One operation on the transaction: its result and the state it leaves.
TxOp(name, result, state) ==
    /\ args.kind = "tx" /\ pc = "tx"
    /\ rets' = (name :> result)
    /\ st' = state
    /\ pc' = IF result.tag = "panic" THEN "panicked" ELSE "tx"
    /\ UNCHANGED <<build, args, loc, out, poison, now>>

get ==
    \E key \in TxKeys :
        IF st.db_tx = {} THEN TxOp("get", AlreadyCommitted, st)
        ELSE TxOp("get", Ok(TxView(Some(st.db_tx), st.db, key)), st)
put ==
    \E key \in TxKeys, val \in TxVals :
        IF st.db_tx = {} THEN TxOp("put", AlreadyCommitted, st)
        ELSE TxOp("put", Ok(Null),
                  [st EXCEPT !.db_tx = {TxWrite(Some(st.db_tx), key, val)}])
del ==
    \E key \in TxKeys :
        IF st.db_tx = {} THEN TxOp("del", AlreadyCommitted, st)
        ELSE TxOp("del", Ok(Null),
                  [st EXCEPT !.db_tx = {TxWrite(Some(st.db_tx), key, 0)}])
exists ==
    \E key \in TxKeys :
        IF st.db_tx = {} THEN TxOp("exists", AlreadyCommitted, st)
        ELSE TxOp("exists", Ok(TxView(Some(st.db_tx), st.db, key) # 0), st)
range_scan ==
    \E lower \in TxBounds, upper \in TxBounds :
        IF st.db_tx = {} THEN TxOp("range_scan", AlreadyCommitted, st)
        ELSE TxOp("range_scan",
                  Ok(TxScan(Some(st.db_tx), st.db, lower, upper)), st)
range_count ==
    \E lower \in TxBounds, upper \in TxBounds :
        IF st.db_tx = {} THEN TxOp("range_count", AlreadyCommitted, st)
        ELSE TxOp("range_count",
                  Ok(Len(TxScan(Some(st.db_tx), st.db, lower, upper))), st)
del_range_from_persisted ==
    \E lower \in TxBounds, upper \in TxBounds :
        IF st.db_tx = {} THEN TxOp("del_range_from_persisted", AlreadyCommitted, st)
        ELSE TxOp("del_range_from_persisted", Ok(Null),
                  [st EXCEPT !.db_tx =
                       {TxDeleteAll(Some(st.db_tx),
                                    TxScan(Some(st.db_tx), st.db, lower, upper))}])
\* commit takes the handle and expects it to be there; the store accepts
\* the writes or refuses them.
commit ==
    IF st.db_tx = {} THEN TxOp("commit", ExpectPanic, st)
    ELSE \/ TxOp("commit", Ok(Null),
                 [db_tx |-> {},
                  db |-> [k \in TxKeys |-> TxView(Some(st.db_tx), st.db, k)]])
         \/ TxOp("commit", Err("Commit failed"), [st EXCEPT !.db_tx = {}])

NextTx ==
    \/ get \/ put \/ del \/ exists \/ range_scan \/ range_count
    \/ del_range_from_persisted \/ commit

SpecTx == InitTx /\ [][NextTx]_vars

(***************************************************************************)
(* C30 (as stated).  Once commit has been called on a storage transaction, *)
(* whether it succeeded or failed, every later operation on it (get, put,  *)
(* del, exists, range scan, range count, range delete, a second commit) is *)
(* rejected with a 'Transaction already committed' error and changes no    *)
(* data; none of them aborts the process.                                  *)
(***************************************************************************)
C30_RejectedAfterCommit ==
    [][(args.kind = "tx" /\ pc = "tx" /\ st.db_tx = {}) =>
          /\ \E name \in DOMAIN rets' : rets'[name] = AlreadyCommitted
          /\ st' = st
          /\ pc' # "panicked"]_vars

====
